---- MODULE Spec2Model ----
(***************************************************************************)
(* A model of the Fastly VCL language server (fastly/vscode-fastly-vcl):   *)
(* the document cache, the symbol cache, the debounced linter, and the     *)
(* providers that read them: rename, references, definition, document      *)
(* highlights, document symbols, folding ranges, selection ranges and      *)
(* semantic tokens.                                                        *)
(*                                                                         *)
(* The server's handlers are actions over one set of variables; the        *)
(* specifications differ in what the client does.                          *)
(*   Spec          didOpen, didChange, didClose and queries on one URI,    *)
(*                 with the debounce timer and the lint runs.              *)
(*   DebounceSpec  two documents, with the clock and the bursts of         *)
(*                 didChange events recorded.                              *)
(*   QuerySpec     prepareRename, rename and references at every word of   *)
(*                 a document that is opened and retyped.                  *)
(*   RenameSpec    rename, with the edits applied by the client.           *)
(*   NavSpec       highlights, definition, references and document         *)
(*                 symbols of a document that is opened, broken, repaired, *)
(*                 closed and re-opened.                                   *)
(*   RefSpec       references of global symbols of every kind.             *)
(*   SymbolSpec    symbols, folding ranges and selection ranges of         *)
(*                 declarations in every layout of keyword, name and       *)
(*                 braces.                                                 *)
(*   TokenSpec     semantic tokens of a document that is opened and        *)
(*                 closed.                                                 *)
(*   DiagSpec      the diagnostics a lint run publishes.                   *)
(*   ConfigSpec    configuration changes while documents are open.         *)
(*   OverlapSpec   edits of a document while a lint run of it is in        *)
(*                 flight.                                                 *)
(* Text is modelled character by character (a line is a string), AST       *)
(* nodes carry the 1-based Line/Position of their token as falco reports   *)
(* them.                                                                   *)
(***************************************************************************)
EXTENDS Integers, Sequences, FiniteSets, Bags, TLC

(***************************************************************************)
(* Characters and strings                                                  *)
(***************************************************************************)

\* The i-th character (1-based) of string s, as a one-character string.
Ch(s, i) == SubSeq(s, i, i)

LowerChars ==
  {"a","b","c","d","e","f","g","h","i","j","k","l","m",
   "n","o","p","q","r","s","t","u","v","w","x","y","z"}

UpperChars ==
  {"A","B","C","D","E","F","G","H","I","J","K","L","M",
   "N","O","P","Q","R","S","T","U","V","W","X","Y","Z"}

DigitChars == {"0","1","2","3","4","5","6","7","8","9"}

\* The regular-expression class \w.
IsWordChar(c) == c \in LowerChars \cup UpperChars \cup DigitChars \cup {"_"}

\* The regular-expression class \s (the characters of it that occur in text).
IsSpaceChar(c) == c \in {" ", "\t", "\n"}

\* The class [\w\d._-] of VclDocument.getWord.
IsIdentChar(c) == IsWordChar(c) \/ c \in {".", "-"}

\* s has prefix p at 1-based index i.
HasAt(s, i, p) ==
  /\ i >= 1
  /\ i + Len(p) - 1 <= Len(s)
  /\ SubSeq(s, i, i + Len(p) - 1) = p

\* The regular-expression assertion \b at the gap before 1-based index i.
WordBoundaryAt(s, i) ==
  LET before == i > 1 /\ i - 1 <= Len(s) /\ IsWordChar(Ch(s, i - 1))
      after  == i >= 1 /\ i <= Len(s) /\ IsWordChar(Ch(s, i))
  IN  before # after

\* The first index >= i whose character is not white space (Len(s)+1 if none).
RECURSIVE SkipSpaces(_, _)
SkipSpaces(s, i) ==
  IF i <= Len(s) /\ IsSpaceChar(Ch(s, i)) THEN SkipSpaces(s, i + 1) ELSE i

\* String.prototype.lastIndexOf, 0-based, -1 when absent.
RECURSIVE LastIndexFrom(_, _, _)
LastIndexFrom(s, p, i) ==
  IF i < 1 THEN -1
  ELSE IF HasAt(s, i, p) THEN i - 1
  ELSE LastIndexFrom(s, p, i - 1)

LastIndexOf(s, p) == LastIndexFrom(s, p, Len(s) - Len(p) + 1)

\* String.prototype.indexOf(p, from), 0-based arguments and result.
RECURSIVE IndexOfFrom(_, _, _)
IndexOfFrom(s, p, from) ==
  IF from + Len(p) > Len(s) THEN -1
  ELSE IF HasAt(s, from + 1, p) THEN from
  ELSE IndexOfFrom(s, p, from + 1)

Max(a, b) == IF a >= b THEN a ELSE b
Min(a, b) == IF a <= b THEN a ELSE b

\* F applied to the value of e, with e evaluated once.
With(e, F(_)) == CHOOSE r \in {F(v) : v \in {e}} : TRUE

(***************************************************************************)
(* Text documents (vscode-languageserver-textdocument, as VclDocument      *)
(* uses it).  A text is a sequence of lines; positions are 0-based.        *)
(***************************************************************************)

Pos(l, c) == [line |-> l, character |-> c]

\* VclDocument.getLine: the text of the position's line, "" past the end.
getLine(lines, position) ==
  IF position.line + 1 \in 1..Len(lines) THEN lines[position.line + 1] ELSE ""

\* The longest run of [\w\d._-] ending right before 0-based character c.
RECURSIVE WordStartFrom(_, _)
WordStartFrom(line, c) ==
  IF c >= 1 /\ c <= Len(line) /\ IsIdentChar(Ch(line, c))
  THEN WordStartFrom(line, c - 1) ELSE c

\* The end of the longest run of [\w\d._-] starting at 0-based character c.
RECURSIVE WordEndFrom(_, _)
WordEndFrom(line, c) ==
  IF c + 1 <= Len(line) /\ IsIdentChar(Ch(line, c + 1))
  THEN WordEndFrom(line, c + 1) ELSE c

\* VclDocument.getWord: the word around the position, "" when there is none.
getWord(lines, position) ==
  With(getLine(lines, position), LAMBDA line :
    LET c == Min(position.character, Len(line))
    IN  SubSeq(line, WordStartFrom(line, c) + 1, WordEndFrom(line, c)))

\* TextDocument.getText(): the lines joined by line feeds.
RECURSIVE JoinLines(_)
JoinLines(lines) ==
  IF Len(lines) = 0 THEN ""
  ELSE IF Len(lines) = 1 THEN lines[1]
  ELSE lines[1] \o "\n" \o JoinLines(Tail(lines))

getText(lines) == JoinLines(lines)

\* TextDocument.positionAt: the position of a 0-based offset into getText().
RECURSIVE PositionFrom(_, _, _)
PositionFrom(lines, l, offset) ==
  IF l >= Len(lines) \/ offset <= Len(lines[l])
  THEN Pos(l - 1, Min(offset, Len(lines[l])))
  ELSE PositionFrom(lines, l + 1, offset - Len(lines[l]) - 1)

positionAt(lines, offset) ==
  IF Len(lines) = 0 THEN Pos(0, 0) ELSE PositionFrom(lines, 1, offset)

(***************************************************************************)
(* The falco AST.  A node is a record: the fields of its Token (Type,      *)
(* Literal, Line, Position; Type "" when the node has no Token), its       *)
(* scalar fields (Value, Operator, Nest, EndLine) and `kids`, its object-  *)
(* and array-valued fields in the order walkAST enumerates them, each      *)
(* tagged with the field's name (an array contributes one entry per        *)
(* element).                                                               *)
(***************************************************************************)

NoNode == [absent |-> TRUE]
NoAST  == [noAST |-> TRUE]

MkNode(type, literal, line, position, value, nest, kids) ==
  [Type |-> type, Literal |-> literal, Line |-> line, Position |-> position,
   Value |-> value, Operator |-> "", Nest |-> nest, EndLine |-> 0,
   kids |-> kids]

Kid(f, n) == [f |-> f, n |-> n]

\* node.<f> for an object-valued field: the node, or NoNode when undefined.
Field(node, f) ==
  IF \E i \in 1..Len(node.kids) : node.kids[i].f = f
  THEN node.kids[CHOOSE i \in 1..Len(node.kids) :
                   /\ node.kids[i].f = f
                   /\ \A j \in 1..(i - 1) : node.kids[j].f # f].n
  ELSE NoNode

\* node.<f> for an array-valued field: its elements in order.
Elems(node, f) ==
  LET idx == {i \in 1..Len(node.kids) : node.kids[i].f = f}
      RECURSIVE Gather(_)
      Gather(i) ==
        IF i > Len(node.kids) THEN <<>>
        ELSE IF i \in idx THEN <<node.kids[i].n>> \o Gather(i + 1)
        ELSE Gather(i + 1)
  IN  Gather(1)

\* walkAST: the nodes the callback is invoked on, in invocation order
\* (depth-first, pre-order, fields in enumeration order).  The Token object
\* itself is also passed to the callback by the code; it has no Token field
\* of its own, so every callback of the providers ignores it.
RECURSIVE walkAST(_)
walkAST(node) ==
  LET RECURSIVE WalkKids(_)
      WalkKids(ks) ==
        IF Len(ks) = 0 THEN <<>>
        ELSE walkAST(Head(ks).n) \o WalkKids(Tail(ks))
  IN  <<node>> \o WalkKids(node.kids)

(***************************************************************************)
(* The documents the model draws from.  A program is a sequence of items,  *)
(* one per line; an item is [k, a, b] with k the statement kind and a, b   *)
(* its names.  LineOf renders an item as text and the Ast operators give   *)
(* the tree falco returns for it, so that text and AST positions agree by  *)
(* construction.                                                           *)
(***************************************************************************)

Item(k, a, b) == [k |-> k, a |-> a, b |-> b]

TopKinds  == {"acl", "table", "backend", "sub", "subp", "include"}
BodyKinds == {"declare", "set", "unset", "call", "ifacl", "iftable"}

\* The arguments of a table function after the table and the key.
MoreArgs(fn) == IF fn = "table.lookup_bool" THEN ", false" ELSE ""

\* Items of a subroutine body are indented by two spaces.
Indent(k) == IF k \in BodyKinds THEN 2 ELSE 0

LineOf(it) ==
  CASE it.k = "acl"     -> "acl " \o it.a \o " {}"
    [] it.k = "table"   -> "table " \o it.a \o " {}"
    [] it.k = "backend" -> "backend " \o it.a \o " {}"
    [] it.k = "sub"     -> "sub " \o it.a \o " {"
    [] it.k = "subp"    -> "sub " \o it.a \o "(STRING " \o it.b \o ") STRING {"
    [] it.k = "end"     -> "}"
    [] it.k = "include" -> "include \"" \o it.a \o "\";"
    [] it.k = "declare" -> "  declare local " \o it.a \o " STRING;"
    [] it.k = "set"     -> "  set " \o it.a \o " = " \o it.b \o ";"
    [] it.k = "unset"   -> "  unset " \o it.a \o ";"
    [] it.k = "call"    -> "  call " \o it.a \o ";"
    [] it.k = "ifacl"   -> "  if (client.ip ~ " \o it.a \o ") {}"
    [] it.k = "iftable" -> "  if (" \o it.a \o "(" \o it.b \o ", \"k\""
                             \o MoreArgs(it.a) \o ")) {}"
    [] OTHER            -> it.a

Render(prog) == [i \in 1..Len(prog) |-> LineOf(prog[i])]

Ident(name, line, position) ==
  MkNode("IDENT", name, line, position, name, 0, <<>>)

\* The statement node of a body item on 1-based line l.
StmtAst(it, l) ==
  CASE it.k = "declare" ->
         MkNode("DECLARE", "declare", l, 3, "", 1,
                <<Kid("Name", Ident(it.a, l, 17)),
                  Kid("ValueType", Ident("STRING", l, 18 + Len(it.a)))>>)
    [] it.k = "set" ->
         MkNode("SET", "set", l, 3, "", 1,
                <<Kid("Ident", Ident(it.a, l, 7)),
                  Kid("Operator",
                      [MkNode("ASSIGN", "=", l, 8 + Len(it.a), "", 1, <<>>)
                         EXCEPT !.Operator = "="]),
                  Kid("Value", Ident(it.b, l, 10 + Len(it.a)))>>)
    [] it.k = "unset" ->
         MkNode("UNSET", "unset", l, 3, "", 1,
                <<Kid("Ident", Ident(it.a, l, 9))>>)
    [] it.k = "call" ->
         MkNode("CALL", "call", l, 3, "", 1,
                <<Kid("Subroutine", Ident(it.a, l, 8))>>)
    [] it.k = "ifacl" ->
         MkNode("IF", "if", l, 3, "", 1,
                <<Kid("Condition",
                      [MkNode("REGEX_MATCH", "~", l, 17, "", 1,
                              <<Kid("Left", Ident("client.ip", l, 7)),
                                Kid("Right", Ident(it.a, l, 19))>>)
                         EXCEPT !.Operator = "~"]),
                  Kid("Consequence",
                      [MkNode("LEFT_BRACE", "{", l, 21 + Len(it.a), "", 1, <<>>)
                         EXCEPT !.EndLine = l])>>)
    [] it.k = "iftable" ->
         MkNode("IF", "if", l, 3, "", 1,
                <<Kid("Condition",
                      MkNode("IDENT", it.a, l, 7, "", 1,
                             <<Kid("Function", Ident(it.a, l, 7)),
                               Kid("Arguments", Ident(it.b, l, 8 + Len(it.a))),
                               Kid("Arguments",
                                   MkNode("STRING", "k", l, 10 + Len(it.a) + Len(it.b),
                                          "k", 1, <<>>))>>)),
                  Kid("Consequence",
                      [MkNode("LEFT_BRACE", "{", l,
                              16 + Len(it.a) + Len(it.b) + Len(MoreArgs(it.a)),
                              "", 1, <<>>)
                         EXCEPT !.EndLine = l])>>)

\* The 1-based line of the first "end" item after line l (0 if none).
RECURSIVE EndOf(_, _)
EndOf(prog, l) ==
  IF l > Len(prog) THEN 0
  ELSE IF prog[l].k = "end" THEN l
  ELSE EndOf(prog, l + 1)

BodyAst(prog, from, to) ==
  [i \in 1..(to - from + 1) |-> Kid("Statements", StmtAst(prog[from + i - 1], from + i - 1))]

\* The declaration node of the top-level item on 1-based line l.
DeclAst(prog, l) ==
  LET it == prog[l]
      e  == EndOf(prog, l)
      block(p) ==
        [MkNode("LEFT_BRACE", "{", l, p, "", 0, BodyAst(prog, l + 1, e - 1))
           EXCEPT !.EndLine = e]
  IN
  CASE it.k = "acl" ->
         MkNode("ACL", "acl", l, 1, "", 0, <<Kid("Name", Ident(it.a, l, 5))>>)
    [] it.k = "table" ->
         MkNode("TABLE", "table", l, 1, "", 0, <<Kid("Name", Ident(it.a, l, 7))>>)
    [] it.k = "backend" ->
         MkNode("BACKEND", "backend", l, 1, "", 0, <<Kid("Name", Ident(it.a, l, 9))>>)
    [] it.k = "include" ->
         MkNode("INCLUDE", "include", l, 1, "", 0,
                <<Kid("Module", MkNode("STRING", it.a, l, 9, it.a, 0, <<>>))>>)
    [] it.k = "sub" ->
         MkNode("SUBROUTINE", "sub", l, 1, "", 0,
                <<Kid("Name", Ident(it.a, l, 5)),
                  Kid("Block", block(6 + Len(it.a)))>>)
    [] it.k = "subp" ->
         MkNode("SUBROUTINE", "sub", l, 1, "", 0,
                <<Kid("Name", Ident(it.a, l, 5)),
                  Kid("Parameters",
                      MkNode("IDENT", "STRING", l, 6 + Len(it.a), "", 0,
                             <<Kid("Type", Ident("STRING", l, 6 + Len(it.a))),
                               Kid("Name", Ident(it.b, l, 13 + Len(it.a)))>>)),
                  Kid("ReturnType",
                      Ident("STRING", l, 15 + Len(it.a) + Len(it.b))),
                  Kid("Block", block(22 + Len(it.a) + Len(it.b)))>>)

\* The top-level declarations from line l on.
RECURSIVE TopAst(_, _)
TopAst(prog, l) ==
  IF l > Len(prog) THEN <<>>
  ELSE IF prog[l].k \in {"sub", "subp"}
       THEN <<Kid("Statements", DeclAst(prog, l))>> \o TopAst(prog, EndOf(prog, l) + 1)
       ELSE <<Kid("Statements", DeclAst(prog, l))>> \o TopAst(prog, l + 1)

\* falco parses the program: every line is a declaration or lies in the body
\* of a subroutine that is closed.
RECURSIVE Parses(_, _)
Parses(prog, l) ==
  IF l > Len(prog) THEN TRUE
  ELSE IF prog[l].k \in {"sub", "subp"}
       THEN LET e == EndOf(prog, l)
            IN  /\ e > 0
                /\ \A i \in (l + 1)..(e - 1) : prog[i].k \in BodyKinds
                /\ Parses(prog, e + 1)
       ELSE prog[l].k \in {"acl", "table", "backend", "include"}
              /\ Parses(prog, l + 1)

\* The root node (ast.VCL: no Token, a Statements array).
AstOf(prog) == MkNode("", "", 0, 0, "", 0, TopAst(prog, 1))

(***************************************************************************)
(* VclDocument.getClosingBracePosition                                     *)
(***************************************************************************)

\* line.replace(/"([^"]*)"/g, ""): every "..." pair removed, left to right.
RECURSIVE StripStrings(_)
StripStrings(line) ==
  LET q1 == IndexOfFrom(line, "\"", 0)
      q2 == IF q1 < 0 THEN -1 ELSE IndexOfFrom(line, "\"", q1 + 1)
  IN  IF q2 < 0 THEN line
      ELSE SubSeq(line, 1, q1) \o StripStrings(SubSeq(line, q2 + 2, Len(line)))

\* (line.match(/c/g) || []).length for a one-character pattern c.
RECURSIVE CountChar(_, _)
CountChar(line, c) ==
  IF Len(line) = 0 THEN 0
  ELSE (IF Ch(line, 1) = c THEN 1 ELSE 0) + CountChar(SubSeq(line, 2, Len(line)), c)

\* The loop of getClosingBracePosition from 0-based line l with the counts
\* so far; NoNode stands for null.
RECURSIVE ClosingBraceFrom(_, _, _, _)
ClosingBraceFrom(lines, l, open, closed) ==
  IF l >= Len(lines) THEN NoNode
  ELSE LET line == StripStrings(getLine(lines, Pos(l, 0)))
           o    == open + CountChar(line, "{")
           c    == closed + CountChar(line, "}")
           closingBraceChar == LastIndexOf(line, "}")
       IN  IF o = c
           THEN Pos(l, IF closingBraceChar > 0 THEN closingBraceChar ELSE Len(line))
           ELSE ClosingBraceFrom(lines, l + 1, o, c)

getClosingBracePosition(lines, position) ==
  ClosingBraceFrom(lines, position.line, 0, 0)

(***************************************************************************)
(* symbol-provider: the DocumentSymbol list of a document                  *)
(***************************************************************************)

Range(s, e) == [start |-> s, end |-> e]

HasToken(node) == node # NoNode /\ node.Type # ""

positionFromNode(node) == Pos(node.Line - 1, node.Position - 1)

rangeForBlock(lines, node) ==
  LET start == positionFromNode(node)
      end   == getClosingBracePosition(lines, start)
  IN  Range(start, IF end = NoNode THEN start ELSE end)

selectionRangeFromNode(node) ==
  LET start == positionFromNode(node)
  IN  Range(start, Pos(start.line, start.character + Len(node.Literal)))

BlockTypes ==
  {"BACKEND", "ACL", "TABLE", "DIRECTOR", "RATECOUNTER", "PENALTYBOX", "SUBROUTINE"}

\* The outcomes of getSymbol: a symbol, null, or a TypeError thrown by
\* reading a property of an undefined field.
SymNull  == [tag |-> "null"]
SymThrow == [tag |-> "throw"]
SymOf(sym) == [tag |-> "sym", sym |-> sym]

getSymbol(lines, node) ==
  IF ~HasToken(node) THEN SymNull
  ELSE
    LET name   == Field(node, "Name")
        module == Field(node, "Module")
        target == IF name # NoNode THEN name
                  ELSE IF module # NoNode THEN module ELSE node
    IN
    IF ~HasToken(target) THEN SymThrow
    ELSE
      LET selectionRange == selectionRangeFromNode(target) IN
      IF node.Type \in BlockTypes THEN
        IF node.Nest # 0 THEN SymNull
        ELSE
          LET block == rangeForBlock(lines, node)
              declarationBlockRange ==
                IF block.end.line = selectionRange.end.line
                THEN Range(block.start, selectionRange.end) ELSE block
          IN  IF name = NoNode THEN SymThrow
              ELSE SymOf([name |-> name.Value,
                          kind |-> IF node.Type = "SUBROUTINE"
                                   THEN "Function" ELSE "Object",
                          detail |-> node.Type,
                          range |-> declarationBlockRange,
                          selectionRange |-> selectionRange,
                          children |-> <<>>])
      ELSE IF node.Type \in {"DECLARE", "INCLUDE"} THEN
        IF name = NoNode THEN SymThrow
        ELSE SymOf([name |-> name.Value,
                    kind |-> IF node.Type = "INCLUDE" THEN "Module" ELSE "Variable",
                    detail |-> "",
                    range |-> Range(positionFromNode(node), selectionRange.end),
                    selectionRange |-> selectionRange,
                    children |-> <<>>])
      ELSE SymNull

\* The outcome of processSymbols: the symbol list, or SymThrow.
SymList(symbols) == [tag |-> "list", symbols |-> symbols]

\* processSymbols applied to the nodes from index i on; `symbols` is the list
\* so far, whose last element is the callback's `context`.  The result is the
\* list, or SymThrow when getSymbol throws.
RECURSIVE processSymbols(_, _, _, _)
processSymbols(lines, nodes, i, symbols) ==
  IF i > Len(nodes) THEN SymList(symbols)
  ELSE
    LET node == nodes[i]
        got  == IF HasToken(node) THEN getSymbol(lines, node) ELSE SymNull
    IN
    IF got = SymThrow THEN SymThrow
    ELSE IF got = SymNull THEN processSymbols(lines, nodes, i + 1, symbols)
    ELSE IF node.Nest # 0 /\ Len(symbols) > 0
    THEN processSymbols(lines, nodes, i + 1,
           [symbols EXCEPT ![Len(symbols)].children = Append(@, got.sym)])
    ELSE processSymbols(lines, nodes, i + 1, Append(symbols, got.sym))

\* A symbolCache entry holds a symbol list; NoEntry when the map has no key.
NoEntry == [noEntry |-> TRUE]
Entry(symbols) == [symbols |-> symbols]

\* An update that would keep the entry of a document without an AST.
updateKeepingSymbols(lines, AST, entry) ==
  IF AST # NoAST
  THEN LET got == processSymbols(lines, walkAST(AST), 1, <<>>)
       IN  IF got = SymThrow THEN entry ELSE Entry(got.symbols)
  ELSE entry

\* updateDocumentSymbols: the new cache entry for the document's URI.
updateDocumentSymbols(lines, AST, entry) ==
  IF AST # NoAST
  THEN LET got == processSymbols(lines, walkAST(AST), 1, <<>>)
       IN  IF got = SymThrow THEN entry ELSE Entry(got.symbols)
  ELSE NoEntry

\* symbolCache.get(uri) || []
SymbolsOrEmpty(entry) == IF entry = NoEntry THEN <<>> ELSE entry.symbols

(***************************************************************************)
(* The program universe and the parser oracle                              *)
(***************************************************************************)

GNames == {"ab", "helper"}
VNames == {"var.a", "var.bc"}
HNames == {"req.http.A", "req.http.Bc"}
\* Functions that take a table as their first argument.
TableFunctions == {"table.contains", "table.lookup_bool"}
\* The subroutines Fastly calls by itself.
BNames ==
  {"vcl_recv", "vcl_hash", "vcl_hit", "vcl_miss", "vcl_pass",
   "vcl_fetch", "vcl_error", "vcl_deliver", "vcl_log"}

\* An ACL, a helper subroutine, and vcl_recv using both.
ProgG(a, s) ==
  << Item("acl", a, ""),
     Item("sub", s, ""), Item("end", "", ""),
     Item("sub", "vcl_recv", ""),
     Item("ifacl", a, ""), Item("call", s, ""),
     Item("end", "", "") >>

\* The same declarations with vcl_recv moved to the top.
ProgG2(a, s) ==
  << Item("sub", "vcl_recv", ""),
     Item("call", s, ""), Item("ifacl", a, ""),
     Item("end", "", ""),
     Item("sub", s, ""), Item("end", "", ""),
     Item("acl", a, "") >>

\* Two subroutines with local variables x and y; the second has parameter p
\* (a parameter and a local variable of one name are the same variable to
\* both providers).
ProgL(x, y, p) ==
  << Item("sub", "fa", ""),
     Item("declare", x, ""), Item("set", x, x),
     Item("end", "", ""),
     Item("subp", "fb", p),
     Item("declare", y, ""), Item("set", y, p),
     Item("end", "", "") >>

\* HTTP headers h and g set, read and unset.
ProgH(h, g) ==
  << Item("sub", "vcl_recv", ""),
     Item("set", h, g), Item("unset", h, ""),
     Item("end", "", "") >>

\* A built-in subroutine alone.
ProgB(b) == << Item("sub", b, ""), Item("end", "", "") >>

\* A table and a subroutine that looks a key up in it with the function fn.
ProgT(fn) ==
  << Item("table", "tb", ""),
     Item("sub", "vcl_recv", ""),
     Item("iftable", fn, "tb"),
     Item("end", "", "") >>

\* A backend and a subroutine that routes to it.
ProgK ==
  << Item("backend", "be", ""),
     Item("sub", "vcl_recv", ""),
     Item("set", "req.backend", "be"),
     Item("end", "", "") >>

\* An include statement before an ACL.
ProgI == << Item("include", "mod", ""), Item("acl", "ab", "") >>

\* A subroutine that is never closed: a syntax error.
ProgBad == << Item("sub", "helper", ""), Item("call", "helper", "") >>

Programs ==
  {ProgG(a, s) : a \in GNames, s \in GNames} \cup
  {ProgG2(a, s) : a \in GNames, s \in GNames} \cup
  {ProgL(x, y, p) : x \in VNames, y \in VNames, p \in VNames} \cup
  {ProgH(h, g) : h \in HNames, g \in HNames} \cup
  {ProgB(b) : b \in BNames} \cup
  {ProgT(fn) : fn \in TableFunctions} \cup
  {ProgK, ProgI, ProgBad}

(***************************************************************************)
(* Layouts: documents with one declaration `mid` whose keyword, name and   *)
(* braces are placed in every way, between the ACLs `first` and `last`.    *)
(***************************************************************************)

\* Where the closing brace is: on the line of the opening brace; on the
\* line after it; or on the line after it, with an opening brace in a
\* comment behind the opening brace.
Closings == {"same", "next", "comment"}

\* kw: the keyword; nameNext: the name is on the line after the keyword;
\* braceNext: the opening brace is on the line after the name; nested: the
\* declaration is a statement of the subroutine `outer` and its node
\* carries Nest.
Layouts ==
  [kw : {"sub", "acl"}, nameNext : BOOLEAN, braceNext : BOOLEAN,
   closing : Closings, nested : BOOLEAN]

Pad(L) == IF L.nested THEN "  " ELSE ""

\* The opening brace with what follows it on its line.
BraceOf(L) ==
  "{" \o (IF L.closing = "same" THEN "}"
          ELSE IF L.closing = "comment" THEN " # {" ELSE "")

\* The lines of the declaration.
DeclLines(L) ==
  (IF L.nameNext
   THEN <<Pad(L) \o L.kw>>
          \o (IF L.braceNext THEN <<Pad(L) \o "mid", Pad(L) \o BraceOf(L)>>
              ELSE <<Pad(L) \o "mid " \o BraceOf(L)>>)
   ELSE IF L.braceNext THEN <<Pad(L) \o L.kw \o " mid", Pad(L) \o BraceOf(L)>>
        ELSE <<Pad(L) \o L.kw \o " mid " \o BraceOf(L)>>)
    \o (IF L.closing = "same" THEN <<>> ELSE <<Pad(L) \o "}">>)

LayoutText(L) ==
  <<"acl first {}">>
    \o (IF L.nested THEN <<"sub outer {">> ELSE <<>>)
    \o DeclLines(L)
    \o (IF L.nested THEN <<"}">> ELSE <<>>)
    \o <<"acl last {}">>

\* The tree falco returns for a layout: 1-based lines and columns of the
\* keyword, the name and the opening brace as they are in LayoutText.
LayoutAst(L) ==
  LET kwLine    == IF L.nested THEN 3 ELSE 2
      kwCol     == Len(Pad(L)) + 1
      nameLine  == IF L.nameNext THEN kwLine + 1 ELSE kwLine
      nameCol   == IF L.nameNext THEN kwCol ELSE kwCol + Len(L.kw) + 1
      braceLine == IF L.braceNext THEN nameLine + 1 ELSE nameLine
      braceCol  == IF L.braceNext THEN kwCol ELSE nameCol + 4
      endLine   == IF L.closing = "same" THEN braceLine ELSE braceLine + 1
      nest      == IF L.nested THEN 1 ELSE 0
      mid ==
        MkNode(IF L.kw = "sub" THEN "SUBROUTINE" ELSE "ACL", L.kw, kwLine, kwCol,
               "", nest,
               <<Kid("Name", Ident("mid", nameLine, nameCol))>>
                 \o (IF L.kw = "sub"
                     THEN <<Kid("Block",
                                [MkNode("LEFT_BRACE", "{", braceLine, braceCol,
                                        "", nest, <<>>)
                                   EXCEPT !.EndLine = endLine])>>
                     ELSE <<>>))
      outer ==
        MkNode("SUBROUTINE", "sub", 2, 1, "", 0,
               <<Kid("Name", Ident("outer", 2, 5)),
                 Kid("Block",
                     [MkNode("LEFT_BRACE", "{", 2, 11, "", 0,
                             <<Kid("Statements", mid)>>)
                        EXCEPT !.EndLine = endLine + 1])>>)
      acl(name, line) ==
        MkNode("ACL", "acl", line, 1, "", 0, <<Kid("Name", Ident(name, line, 5))>>)
  IN  MkNode("", "", 0, 0, "", 0,
             <<Kid("Statements", acl("first", 1)),
               Kid("Statements", IF L.nested THEN outer ELSE mid),
               Kid("Statements", acl("last", Len(LayoutText(L))))>>)

LayoutTexts == {LayoutText(L) : L \in Layouts}

Texts == {Render(p) : p \in Programs}

\* lintText(...).Vcl?.AST: the tree of the program whose text this is;
\* undefined (NoAST) for a syntax error and for text that is no program.
Parse(lines) ==
  IF \E p \in Programs : Render(p) = lines /\ Parses(p, 1)
  THEN AstOf(CHOOSE p \in Programs : Render(p) = lines /\ Parses(p, 1))
  ELSE IF \E L \in Layouts : LayoutText(L) = lines
  THEN LayoutAst(CHOOSE L \in Layouts : LayoutText(L) = lines)
  ELSE NoAST

\* lintText and the symbol builder are functions of their arguments; their
\* results over the programs are tabulated once.
RECURSIVE TableOfParse(_)
TableOfParse(S) ==
  IF S = {} THEN <<>>
  ELSE LET t == CHOOSE t \in S : TRUE
       IN  (t :> Parse(t)) @@ TableOfParse(S \ {t})

LintResult == TableOfParse(Texts)

\* falco's lintText(text).Vcl?.AST
lintText(text) == IF text \in Texts THEN LintResult[text] ELSE Parse(text)

Unchanged == [unchanged |-> TRUE]

\* The texts the client opens, types and has on disk.
SpecTexts == {Render(ProgG("ab", "helper")), Render(ProgI), Render(ProgBad)}

\* The pairs of a document's lines and the text its AST was parsed from
\* whose symbol update is tabulated: a text with its own AST, and every
\* pair of the texts that are typed while a lint run is in flight.
Pairs == {<<t, t>> : t \in Texts} \cup (SpecTexts \X SpecTexts)

RECURSIVE TableOfSymbols(_)
TableOfSymbols(S) ==
  IF S = {} THEN <<>>
  ELSE LET pair == CHOOSE pair \in S : TRUE
       IN  (pair :> updateDocumentSymbols(pair[1], lintText(pair[2]), Unchanged))
             @@ TableOfSymbols(S \ {pair})

SymbolUpdate == TableOfSymbols(Pairs)

\* The symbolCache entry after updateDocumentSymbols(doc), for a document
\* with these lines whose AST falco parsed from the text `src`.
EntryAfterUpdate(lines, src, entry) ==
  With(IF <<lines, src>> \in Pairs THEN SymbolUpdate[<<lines, src>>]
       ELSE updateDocumentSymbols(lines, lintText(src), Unchanged),
       LAMBDA updated : IF updated = Unchanged THEN entry ELSE updated)

(***************************************************************************)
(* The server: document cache, symbol cache, settings cache, debounce      *)
(* timer and lint runs                                                     *)
(***************************************************************************)

URIs == {"file:///a.vcl", "file:///b.vcl"}

DEBOUNCE_INTERVAL == 1000

\* The clock advances by at most this many milliseconds per step.
TickMs == 500
\* VclDocument objects alive at one time.
MaxDocs == 3
\* Lint runs pending (timer armed) or in flight at one time.
MaxLints == 1
\* Identities of timers (setTimeout handles).
MaxTimerIds == 3
\* didChange events counted in one burst.
MaxBurst == 2

VARIABLES
  documents,          \* DocumentCache._documents: URI -> object id, 0 if no key
  heap,               \* the VclDocument objects: id -> [uri, text, AST] or Free
  symbolCache,        \* symbol-provider's symbolCache: URI -> Entry or NoEntry
  documentSettings,   \* server's documentSettings: URI -> "none" | "on" | "off"
  hasConfigurationCapability,
  globalConfig,       \* globalConfig.lintingEnabled
  clientConfig,       \* fastly.vcl.lintingEnabled as the client has it
  lints,              \* validateVCLDocument calls in flight: bag of [doc, pc, text]
  timers,             \* pending setTimeout callbacks: set of [id, remaining, doc]
  timeoutId,          \* debounce's timeoutId: a timer id, 0 while undefined
  opened,             \* the URIs the client has open
  sinceChange,        \* history: milliseconds since the last didChange (capped)
  burst,              \* history: didChange events of the current burst (capped)
  fired,              \* history: debounced calls since the current burst began
  lastQuery,          \* history: the request handled in the last step, with its response
  lastRename          \* history: the rename whose edits the client applied last

server ==
  <<documents, heap, symbolCache, documentSettings, hasConfigurationCapability,
    globalConfig, clientConfig, lints, timers, timeoutId, opened>>

history == <<sinceChange, burst, fired>>

observed == <<lastQuery, lastRename>>

vars == <<server, history, observed>>

\* No request was handled in the last step; no rename has been applied to
\* the text as it is.
NoQuery  == [kind |-> "none"]
NoRename == [applied |-> FALSE]

Free == [free |-> TRUE]

\* documentCache.get(uri) for a cached URI.
DocOf(u) == heap[documents[u]]

\* The AST of the document cached for a URI (NoAST when none is cached or
\* the document's AST is undefined).
AstOfUri(u) == IF documents[u] = 0 THEN NoAST ELSE DocOf(u).AST

\* getSymbolInformation for the document of a URI.
getSymbolInformation(u) == SymbolsOrEmpty(symbolCache[u])

Init ==
  /\ documents = [u \in URIs |-> 0]
  /\ heap = [i \in 1..MaxDocs |-> Free]
  /\ symbolCache = [u \in URIs |-> NoEntry]
  /\ documentSettings = [u \in URIs |-> "none"]
  /\ hasConfigurationCapability \in BOOLEAN
  /\ globalConfig = TRUE
  /\ clientConfig \in BOOLEAN
  /\ lints = EmptyBag
  /\ timers = {}
  /\ timeoutId = 0
  /\ opened = {}
  /\ sinceChange = DEBOUNCE_INTERVAL
  /\ burst = 0
  /\ fired = 0
  /\ lastQuery = NoQuery
  /\ lastRename = NoRename

\* new VclDocument(uri, languageId, version, text): _ast is undefined.
NewVclDocument(u, text) == [uri |-> u, text |-> text, AST |-> NoAST]

\* A VclDocument.update that would drop the AST with the old text.
updateDroppingAST(doc, text) == [doc EXCEPT !.text = text, !.AST = NoAST]

\* VclDocument.update: the text changes, the AST stays.
update(doc, text) == [doc EXCEPT !.text = text]

\* The id of the next object created.
NewId == CHOOSE i \in 1..MaxDocs : heap[i] = Free /\ \A j \in 1..(i - 1) : heap[j] # Free

\* Garbage collection: an object that neither the cache nor a lint run nor
\* a timer refers to is gone.
Collect(h, docs, ls, ts) ==
  [i \in 1..MaxDocs |->
     IF \/ \E u \in URIs : docs[u] = i
        \/ \E l \in BagToSet(ls) : l.doc = i
        \/ \E t \in ts : t.doc = i
     THEN h[i] ELSE Free]

\* The event loop runs the timers that are due before it handles anything
\* else.
NoTimerDue == \A t \in timers : t.remaining > 0

\* The start of validateVCLDocument(doc), up to its first await.
validateVCLDocument(d) == lints (+) SetToBag({[doc |-> d, pc |-> "settings", text |-> <<>>]})

\* connection.onDidOpenTextDocument
DidOpen(u, text) ==
  /\ NoTimerDue
  /\ u \notin opened
  /\ \E i \in 1..MaxDocs : heap[i] = Free
  /\ BagCardinality(lints) + Cardinality(timers) < MaxLints
  /\ opened' = opened \cup {u}
  /\ documents' = [documents EXCEPT ![u] = NewId]
  /\ lints' = validateVCLDocument(NewId)
  /\ heap' = Collect([heap EXCEPT ![NewId] = NewVclDocument(u, text)],
                     documents', lints', timers)
  /\ UNCHANGED <<symbolCache, documentSettings, hasConfigurationCapability,
                 globalConfig, clientConfig, timers, timeoutId>>

\* A fresh timer identity: no pending timer has it and timeoutId does not
\* refer to it.
FreshIds == {i \in 1..MaxTimerIds : i # timeoutId /\ \A t \in timers : t.id # i}

FreshTimerId == CHOOSE i \in FreshIds : \A j \in FreshIds : i <= j

\* A clearTimeout that would leave the timer armed.
keepTimeout(ts, id) == ts

\* clearTimeout(id)
clearTimeout(ts, id) == {t \in ts : t.id # id}

\* debounced(doc) of debounce(validateVCLDocument, DEBOUNCE_INTERVAL): the
\* timers afterwards.  timeoutId starts undefined, which !== null, so the
\* previous timer is always cleared first.
debounce(ts, id, d) ==
  clearTimeout(ts, id)
    \cup {[id |-> FreshTimerId, remaining |-> DEBOUNCE_INTERVAL, doc |-> d]}

\* connection.onDidChangeTextDocument, while fewer than maxLints lint runs are
\* in flight.
DidChangeWithin(u, text, maxLints) ==
  /\ NoTimerDue
  /\ u \in opened
  /\ BagCardinality(lints) < maxLints
  /\ FreshIds # {}
  /\ timers' = debounce(timers, timeoutId, documents[u])
  /\ timeoutId' = FreshTimerId
  /\ heap' = Collect([heap EXCEPT ![documents[u]] = update(@, text)],
                     documents, lints, timers')
  /\ UNCHANGED <<documents, symbolCache, documentSettings,
                 hasConfigurationCapability, globalConfig, clientConfig,
                 lints, opened>>

\* connection.onDidChangeTextDocument
DidChange(u, text) == DidChangeWithin(u, text, MaxLints)

\* connection.onDidCloseTextDocument
DidClose(u) ==
  /\ NoTimerDue
  /\ u \in opened
  /\ opened' = opened \ {u}
  /\ documentSettings' = [documentSettings EXCEPT ![u] = "none"]
  /\ documents' = [documents EXCEPT ![u] = 0]
  /\ heap' = Collect(heap, documents', lints, timers)
  /\ UNCHANGED <<symbolCache, hasConfigurationCapability, globalConfig,
                 clientConfig, lints, timers, timeoutId>>

\* A query handler that would read the document from disk on every request.
QueryReloading(u) ==
  /\ NoTimerDue
  /\ documents[u] # 0
  /\ heap' = [heap EXCEPT ![documents[u]] = NewVclDocument(u, @.text)]
  /\ UNCHANGED <<documents, symbolCache, documentSettings,
                 hasConfigurationCapability, globalConfig, clientConfig,
                 lints, timers, timeoutId, opened>>

\* A query handler (definition, references, rename, highlights, folding,
\* selection ranges, semantic tokens, hover, document symbols): every one
\* starts with documentCache.get(uri), whose alwaysCache defaults to true.
\* For a cached URI nothing is written.
QueryCached(u) ==
  /\ NoTimerDue
  /\ documents[u] # 0
  /\ UNCHANGED server

\* For an uncached URI DocumentCache._loadContent reads the file and the new
\* document is put into the cache.
QueryLoads(u, text) ==
  /\ NoTimerDue
  /\ documents[u] = 0
  /\ \E i \in 1..MaxDocs : heap[i] = Free
  /\ heap' = [heap EXCEPT ![NewId] = NewVclDocument(u, text)]
  /\ documents' = [documents EXCEPT ![u] = NewId]
  /\ UNCHANGED <<symbolCache, documentSettings, hasConfigurationCapability,
                 globalConfig, clientConfig, lints, timers, timeoutId, opened>>

\* ... or readFileSync throws and the request fails.
QueryLoadFails(u) ==
  /\ NoTimerDue
  /\ documents[u] = 0
  /\ UNCHANGED server

\* The setTimeout callback of debounce: func(...args).
TimerFires(t) ==
  /\ t \in timers
  /\ t.remaining = 0
  /\ timers' = timers \ {t}
  /\ lints' = validateVCLDocument(t.doc)
  /\ UNCHANGED <<documents, heap, symbolCache, documentSettings,
                 hasConfigurationCapability, globalConfig, clientConfig,
                 timeoutId, opened>>

\* The time that passes in one step: up to the next timer that falls due.
Elapse ==
  IF \E t \in timers : t.remaining < TickMs
  THEN CHOOSE r \in {t.remaining : t \in timers} : \A t \in timers : r <= t.remaining
  ELSE TickMs

\* Time passes.
Tick ==
  /\ NoTimerDue
  /\ timers # {}
  /\ timers' = {[t EXCEPT !.remaining = @ - Elapse] : t \in timers}
  /\ UNCHANGED <<documents, heap, symbolCache, documentSettings,
                 hasConfigurationCapability, globalConfig, clientConfig,
                 lints, timeoutId, opened>>

\* getDocumentSettings(resource).lintingEnabled
getDocumentSettings(u) ==
  IF ~hasConfigurationCapability THEN globalConfig
  ELSE IF documentSettings[u] # "none" THEN documentSettings[u] = "on"
  ELSE clientConfig

\* validateVCLDocument after `await getDocumentSettings`: return when
\* linting is disabled, else take the text and invoke falco.
LintSettings(l) ==
  /\ NoTimerDue
  /\ BagIn(l, lints)
  /\ l.pc = "settings"
  /\ LET u == heap[l.doc].uri IN
     /\ documentSettings' =
          IF hasConfigurationCapability /\ documentSettings[u] = "none"
          THEN [documentSettings EXCEPT ![u] = IF clientConfig THEN "on" ELSE "off"]
          ELSE documentSettings
     /\ lints' =
          IF getDocumentSettings(u)
          THEN (lints (-) SetToBag({l}))
                 (+) SetToBag({[doc |-> l.doc, pc |-> "falco", text |-> heap[l.doc].text]})
          ELSE lints (-) SetToBag({l})
  /\ heap' = Collect(heap, documents, lints', timers)
  /\ UNCHANGED <<documents, symbolCache, hasConfigurationCapability,
                 globalConfig, clientConfig, timers, timeoutId, opened>>

\* validateVCLDocument after `await lintText`: the AST is stored in the
\* document object the run was started with, the symbols are rebuilt and
\* the diagnostics are sent.
LintCompletes(l) ==
  /\ NoTimerDue
  /\ BagIn(l, lints)
  /\ l.pc = "falco"
  /\ lints' = lints (-) SetToBag({l})
  /\ heap' = Collect([heap EXCEPT ![l.doc].AST = lintText(l.text)],
                     documents, lints', timers)
  /\ symbolCache' =
       [symbolCache EXCEPT
          ![heap[l.doc].uri] = EntryAfterUpdate(heap[l.doc].text, l.text, @)]
  /\ UNCHANGED <<documents, documentSettings, hasConfigurationCapability,
                 globalConfig, clientConfig, timers, timeoutId, opened>>

\* connection.onDidChangeConfiguration.  The revalidation loop runs only
\* when documentCache.isEmpty(), that is over no document at all.
DidChangeConfiguration(v) ==
  /\ NoTimerDue
  /\ clientConfig' = v
  /\ IF hasConfigurationCapability
     THEN documentSettings' = [u \in URIs |-> "none"] /\ UNCHANGED globalConfig
     ELSE globalConfig' = v /\ UNCHANGED documentSettings
  /\ UNCHANGED <<documents, heap, symbolCache, hasConfigurationCapability,
                 lints, timers, timeoutId, opened>>

(***************************************************************************)
(* Spec: a client working on one document, with every kind of text         *)
(***************************************************************************)

SpecURIs == {"file:///a.vcl"}

Next ==
  \/ \E u \in SpecURIs, text \in SpecTexts : DidOpen(u, text) /\ UNCHANGED <<history, observed>>
  \/ \E u \in SpecURIs, text \in SpecTexts : DidChange(u, text) /\ UNCHANGED <<history, observed>>
  \/ \E u \in SpecURIs : DidClose(u) /\ UNCHANGED <<history, observed>>
  \/ \E u \in SpecURIs : QueryCached(u) /\ UNCHANGED <<history, observed>>
  \/ \E u \in SpecURIs, text \in SpecTexts : QueryLoads(u, text) /\ UNCHANGED <<history, observed>>
  \/ \E u \in SpecURIs : QueryLoadFails(u) /\ UNCHANGED <<history, observed>>
  \/ \E t \in timers : TimerFires(t) /\ UNCHANGED <<history, observed>>
  \/ Tick /\ UNCHANGED <<history, observed>>
  \/ \E l \in BagToSet(lints) : LintSettings(l) /\ UNCHANGED <<history, observed>>
  \/ \E l \in BagToSet(lints) : LintCompletes(l) /\ UNCHANGED <<history, observed>>

Spec == Init /\ [][Next]_vars

(***************************************************************************)
(* Claims about the caches (checked under Spec)                            *)
(***************************************************************************)

\* A lint run of a document of this URI completes in this step.
LintCompletesOn(u) ==
  \E l \in BagToSet(lints) : heap[l.doc].uri = u /\ LintCompletes(l)

\* A query on this URI is handled in this step.
QueryOn(u) ==
  \/ QueryCached(u)
  \/ \E text \in SpecTexts : QueryLoads(u, text)
  \/ QueryLoadFails(u)

\* C1: after didClose the symbol cache holds no entry for the URI: a URI
\* the client does not have open has no symbol-cache entry.
C1_ClosedUriHasNoSymbols ==
  \A u \in URIs : u \notin opened => symbolCache[u] = NoEntry

\* The symbol-building walk throws for a document with these lines whose
\* AST falco parsed from src.
WalkThrows(lines, src) == SymbolUpdate[<<lines, src>>] = Unchanged

\* C2: when the symbol-building walk of a completing lint run throws, the
\* symbol list of the document is empty afterwards, whatever was cached.
C2_ThrowYieldsNoSymbols ==
  [][\A l \in BagToSet(lints) :
       LET u == heap[l.doc].uri IN
       (LintCompletes(l) /\ WalkThrows(heap[l.doc].text, l.text))
         => SymbolsOrEmpty(symbolCache'[u]) = <<>>]_vars

\* C3 as stated: a step that is not the completion of a lint run leaves
\* the AST and the symbol-cache entry of every URI as they were.
C3_OnlyLintChangesAstAndSymbols ==
  [][\A u \in URIs :
       \/ LintCompletesOn(u)
       \/ /\ AstOfUri(u)' = AstOfUri(u)
          /\ symbolCache'[u] = symbolCache[u]]_vars

\* C3 amended: a step that is not the completion of a lint run leaves the
\* symbol-cache entry of every URI as it was, and leaves its AST as it was
\* unless the step is the didClose of the URI, which discards the document
\* together with its AST.
C3_OnlyLintAndCloseChangeAst ==
  [][\A u \in URIs :
       \/ LintCompletesOn(u)
       \/ /\ symbolCache'[u] = symbolCache[u]
          /\ \/ AstOfUri(u)' = AstOfUri(u)
             \/ DidClose(u) /\ AstOfUri(u)' = NoAST]_vars

\* An open document whose text was changed after a lint run installed its
\* AST and symbols: both are still those of that run.
C3_Witness ==
  \E u \in opened :
    /\ AstOfUri(u) # NoAST
    /\ symbolCache[u] # NoEntry
    /\ AstOfUri(u) # lintText(DocOf(u).text)

\* A lint run of the document cached for the URI is scheduled or in flight.
Pending(u) ==
  /\ documents[u] # 0
  /\ \/ \E t \in timers : t.doc = documents[u]
     \/ \E l \in BagToSet(lints) : l.doc = documents[u]

\* C4: while a lint run of an open document is scheduled or in flight,
\* every step other than the completion of a lint run of that URI leaves
\* its AST and symbol list unchanged, and the document stays in the cache,
\* so that a query is answered from them without waiting.
C4_StaleButAvailable ==
  [][\A u \in URIs :
       (/\ u \in opened /\ u \in opened'
        /\ Pending(u) \/ Pending(u)'
        /\ ~LintCompletesOn(u))
       => /\ AstOfUri(u)' = AstOfUri(u)
          /\ symbolCache'[u] = symbolCache[u]
          /\ documents'[u] # 0]_vars

\* After a didChange, with the debounce timer still pending, the document
\* has the AST and the symbols of the lint run of its previous text.
C4_Witness ==
  \E u \in opened :
    /\ \E t \in timers : t.doc = documents[u] /\ t.remaining < DEBOUNCE_INTERVAL
    /\ AstOfUri(u) # NoAST
    /\ getSymbolInformation(u) # <<>>
    /\ lintText(DocOf(u).text) = NoAST

\* C6: no query handler performs I/O or adds a document to the document
\* cache: a step that handles a query leaves the document cache as it was.
C6_QueriesLeaveDocumentCache ==
  [][\A u \in URIs : QueryOn(u) => documents' = documents]_vars

(***************************************************************************)
(* DebounceSpec: two documents of one text, with the clock and the bursts  *)
(* of didChange events recorded                                            *)
(***************************************************************************)

DebounceTexts == {Render(ProgG("ab", "helper"))}

\* A didChange less than one interval after the previous one continues the
\* burst; a later one begins a new burst.
ChangeRecorded ==
  /\ sinceChange' = 0
  /\ burst' = IF sinceChange < DEBOUNCE_INTERVAL THEN Min(MaxBurst, burst + 1) ELSE 1
  /\ fired' = IF sinceChange < DEBOUNCE_INTERVAL THEN fired ELSE 0
  /\ UNCHANGED observed

TimePassed ==
  /\ sinceChange' = Min(DEBOUNCE_INTERVAL, sinceChange + Elapse)
  /\ UNCHANGED <<burst, fired, observed>>

FireRecorded ==
  /\ fired' = fired + 1
  /\ UNCHANGED <<sinceChange, burst, observed>>

DebounceNext ==
  \/ \E u \in URIs, text \in DebounceTexts : DidOpen(u, text) /\ UNCHANGED <<history, observed>>
  \/ \E u \in URIs, text \in DebounceTexts : DidChange(u, text) /\ ChangeRecorded
  \/ \E u \in URIs : DidClose(u) /\ UNCHANGED <<history, observed>>
  \/ \E t \in timers : TimerFires(t) /\ FireRecorded
  \/ Tick /\ TimePassed
  \/ \E l \in BagToSet(lints) : LintSettings(l) /\ UNCHANGED <<history, observed>>
  \/ \E l \in BagToSet(lints) : LintCompletes(l) /\ UNCHANGED <<history, observed>>

DebounceSpec == Init /\ [][DebounceNext]_vars

\* C5: a burst of didChange events, each less than one debounce interval
\* after the previous one, causes exactly one lint invocation, one interval
\* after the last event: at most one timer is armed, it falls due exactly
\* DEBOUNCE_INTERVAL after the last didChange, no debounced call is made
\* before that, and exactly one has been made once the timer is gone.
C5_OneLintPerBurst ==
  /\ Cardinality(timers) <= 1
  /\ \A t \in timers : t.remaining = DEBOUNCE_INTERVAL - sinceChange
  /\ sinceChange < DEBOUNCE_INTERVAL => fired = 0
  /\ fired <= 1
  /\ burst >= 1 => (fired = 1 <=> timers = {})

\* A burst of at least two didChange events whose single lint run has
\* just been started.
C5_Witness ==
  /\ burst >= 2
  /\ fired = 1
  /\ \E l \in BagToSet(lints) : l.pc = "settings"

(***************************************************************************)
(* rename-provider and references-provider: the helpers they share         *)
(***************************************************************************)

\* null / undefined as the result of a provider.
Null == [null |-> TRUE]

\* A provider that protects no subroutine name.
NoBuiltins == {}

BUILTIN_SUBROUTINES ==
  {"vcl_recv", "vcl_hash", "vcl_hit", "vcl_miss", "vcl_pass",
   "vcl_fetch", "vcl_error", "vcl_deliver", "vcl_log"}

\* [a-zA-Z0-9_-]+
IsHeaderToken(s) ==
  /\ Len(s) > 0
  /\ \A i \in 1..Len(s) : IsWordChar(Ch(s, i)) \/ Ch(s, i) = "-"

\* HTTP_HEADER_PATTERN.test(s):
\* /^(req|resp|bereq|beresp|obj)\.http\.[a-zA-Z0-9_-]+(:[a-zA-Z0-9_-]+)?$/
HTTP_HEADER_PATTERN(s) ==
  \E pre \in {"req", "resp", "bereq", "beresp", "obj"} :
    LET head == pre \o ".http."
        rest == SubSeq(s, Len(head) + 1, Len(s))
    IN  /\ HasAt(s, 1, head)
        /\ \/ IsHeaderToken(rest)
           \/ \E k \in 1..Len(rest) :
                /\ Ch(rest, k) = ":"
                /\ IsHeaderToken(SubSeq(rest, 1, k - 1))
                /\ IsHeaderToken(SubSeq(rest, k + 1, Len(rest)))

\* The SymbolLocation / VariableLocation of a node that has a Token.
Location(node) ==
  [name |-> node.Value, line |-> node.Line - 1,
   position |-> node.Position - 1, length |-> Len(node.Literal)]

\* The range a location covers.
RangeOf(loc) ==
  Range(Pos(loc.line, loc.position), Pos(loc.line, loc.position + loc.length))

Edit(range, newText) == [range |-> range, newText |-> newText]

\* A lookup that takes the first subroutine of the document, wherever the
\* position is.
firstSubroutine(ast, position) ==
  With(walkAST(ast), LAMBDA nodes :
    With({i \in 1..Len(nodes) : nodes[i].Type = "SUBROUTINE"}, LAMBDA hits :
      IF hits = {} THEN NoNode
      ELSE nodes[CHOOSE i \in hits : \A j \in hits : i <= j]))

\* findContainingSubroutine: the last subroutine node, in walk order, whose
\* lines contain the position; NoNode for null.
findContainingSubroutine(ast, position) ==
  LET Contains(node) ==
        /\ node.Type = "SUBROUTINE"
        /\ Field(node, "Block") # NoNode
        /\ LET startLine == node.Line - 1
               block     == Field(node, "Block")
               endLine   == IF block.EndLine # 0 THEN block.EndLine - 1 ELSE startLine
           IN  position.line >= startLine /\ position.line <= endLine
  IN  With(walkAST(ast), LAMBDA nodes :
        With({i \in 1..Len(nodes) : Contains(nodes[i])}, LAMBDA hits :
          IF hits = {} THEN NoNode
          ELSE nodes[CHOOSE i \in hits : \A j \in hits : j <= i]))

\* node.Name?.Value === name
NameIs(node, name) ==
  Field(node, "Name") # NoNode /\ Field(node, "Name").Value = name

\* The nodes walkAST(containingSub.Block) visits (none without a Block).
BlockNodes(containingSub) ==
  IF Field(containingSub, "Block") = NoNode THEN <<>>
  ELSE walkAST(Field(containingSub, "Block"))

isLocalVariableOrParameter(containingSub, name) ==
  \/ \E params \in {Elems(containingSub, "Parameters")} :
       \E i \in 1..Len(params) : NameIs(params[i], name)
  \/ \E nodes \in {BlockNodes(containingSub)} :
       \E i \in 1..Len(nodes) :
         nodes[i].Type = "DECLARE" /\ NameIs(nodes[i], name)

\* findDeclarationLocation: the first parameter of that name, else the
\* first declare statement of that name in the block; Null when none.
findDeclarationLocation(containingSub, name) ==
  LET First(nodes, Test(_)) ==
        With({i \in 1..Len(nodes) : Test(nodes[i])}, LAMBDA hits :
          IF hits = {} THEN Null
          ELSE With(Field(nodes[CHOOSE i \in hits : \A j \in hits : i <= j], "Name"),
                    LAMBDA node : Location(node)))
      IsParam(node)   == NameIs(node, name)
      IsDeclare(node) == node.Type = "DECLARE" /\ NameIs(node, name)
  IN  With(With(Elems(containingSub, "Parameters"), LAMBDA params : First(params, IsParam)),
           LAMBDA parameter :
             IF parameter # Null THEN parameter
             ELSE With(BlockNodes(containingSub), LAMBDA nodes : First(nodes, IsDeclare)))

\* findVariableUsagesInBlock: the IDENT nodes of that value, in walk order.
findVariableUsagesInBlock(containingSub, name) ==
  LET IsUsage(node) == node.Type = "IDENT" /\ node.Value = name
  IN  With(SelectSeq(BlockNodes(containingSub), IsUsage), LAMBDA usages :
        [i \in 1..Len(usages) |-> Location(usages[i])])

(***************************************************************************)
(* The usage patterns of the global symbols.  A pattern is matched at a    *)
(* 1-based index of the subject; the result is the index one past the      *)
(* match, 0 when the pattern does not match there.                         *)
(***************************************************************************)

\* The tail  name\b  at index j.
AfterName(s, j, name) ==
  IF HasAt(s, j, name) /\ WordBoundaryAt(s, j + Len(name))
  THEN j + Len(name) ELSE 0

\* The tail  \s*c\s*name\b  at index i, for a one-character c.
AfterCharAndName(s, i, c, name) ==
  LET p == SkipSpaces(s, i)
  IN  IF p <= Len(s) /\ Ch(s, p) = c
      THEN AfterName(s, SkipSpaces(s, p + 1), name) ELSE 0

PatternEnd(symbolType, s, name, i) ==
  CASE symbolType = "ACL" ->
         \* !?~\s*name\b
         LET t == IF Ch(s, i) = "!" THEN i + 1 ELSE i
         IN  IF t <= Len(s) /\ Ch(s, t) = "~"
             THEN AfterName(s, SkipSpaces(s, t + 1), name) ELSE 0
    [] symbolType = "TABLE" ->
         \* table\.(lookup|contains)\s*\(\s*name\b
         IF HasAt(s, i, "table.lookup")
         THEN AfterCharAndName(s, i + 12, "(", name)
         ELSE IF HasAt(s, i, "table.contains")
         THEN AfterCharAndName(s, i + 14, "(", name)
         ELSE 0
    [] symbolType = "BACKEND" ->
         \* (req|bereq)\.backend\s*=\s*name\b
         IF HasAt(s, i, "req.backend")
         THEN AfterCharAndName(s, i + 11, "=", name)
         ELSE IF HasAt(s, i, "bereq.backend")
         THEN AfterCharAndName(s, i + 13, "=", name)
         ELSE 0
    [] symbolType = "SUBROUTINE" ->
         \* call\s+name\s*;
         LET j == SkipSpaces(s, i + 4)
             k == SkipSpaces(s, j + Len(name))
         IN  IF /\ HasAt(s, i, "call") /\ j > i + 4 /\ HasAt(s, j, name)
                /\ k <= Len(s) /\ Ch(s, k) = ";"
             THEN k + 1 ELSE 0
    [] OTHER -> 0

\* RegExp.prototype.test: the pattern matches somewhere in the subject.
PatternTest(symbolType, s, name) ==
  \E i \in 1..Len(s) : PatternEnd(symbolType, s, name, i) > 0

\* The successive results of pattern.exec(text) for a global pattern, from
\* 1-based index `from` on: each match with its 0-based index and its text.
RECURSIVE PatternMatches(_, _, _, _)
PatternMatches(symbolType, s, name, from) ==
  With({i \in from..Len(s) : PatternEnd(symbolType, s, name, i) > 0}, LAMBDA starts :
    IF starts = {} THEN <<>>
    ELSE With(CHOOSE i \in starts : \A j \in starts : i <= j, LAMBDA i :
           With(PatternEnd(symbolType, s, name, i), LAMBDA e :
             <<[index |-> i - 1, str |-> SubSeq(s, i, e - 1)]>>
               \o PatternMatches(symbolType, s, name, e))))

\* detectSymbolTypeFromUsage: "" stands for undefined.
detectSymbolTypeFromUsage(lines, position, word) ==
  With(getLine(lines, position), LAMBDA lineText :
    IF PatternTest("ACL", lineText, word) THEN "ACL"
    ELSE IF PatternTest("TABLE", lineText, word) THEN "TABLE"
    ELSE IF PatternTest("BACKEND", lineText, word) THEN "BACKEND"
    ELSE IF PatternTest("SUBROUTINE", lineText, word) THEN "SUBROUTINE"
    ELSE "")

\* findNameIndex: match[0].lastIndexOf(name)
findNameIndex(match, name) == LastIndexOf(match.str, name)

\* The ranges of the usages of a global symbol: one per match of the
\* pattern of its type in the text.  The loop is the same in findUsages of
\* references-provider and in getUsageRenameEdits of rename-provider.
UsageRanges(lines, name, symbolType) ==
  LET Found(match) == findNameIndex(match, name) # -1
      RangeAt(startOffset) ==
        Range(positionAt(lines, startOffset), positionAt(lines, startOffset + Len(name)))
  IN  With(getText(lines), LAMBDA text :
        With(SelectSeq(PatternMatches(symbolType, text, name, 1), Found), LAMBDA kept :
          [i \in 1..Len(kept) |->
             With(kept[i].index + findNameIndex(kept[i], name), LAMBDA startOffset :
               RangeAt(startOffset))]))

getUsageRenameEdits(lines, name, symbolType, newName) ==
  With(UsageRanges(lines, name, symbolType), LAMBDA usages :
    [i \in 1..Len(usages) |-> Edit(usages[i], newName)])

\* getLocalVariableRenameEdits: the declaration, then the usages in the
\* block other than the declaration itself.
getLocalVariableRenameEdits(ast, name, position, newName) ==
  IF ast = NoAST THEN <<>>
  ELSE
    With(findContainingSubroutine(ast, position), LAMBDA containingSub :
      IF containingSub = NoNode THEN <<>>
      ELSE IF ~isLocalVariableOrParameter(containingSub, name) THEN <<>>
      ELSE
        With(findDeclarationLocation(containingSub, name), LAMBDA declaration :
          LET Other(usage) ==
                ~(/\ declaration # Null
                  /\ usage.line = declaration.line
                  /\ usage.position = declaration.position)
          IN  With(SelectSeq(findVariableUsagesInBlock(containingSub, name), Other),
                   LAMBDA others :
                (IF declaration # Null
                 THEN <<Edit(RangeOf(declaration), newName)>> ELSE <<>>)
                  \o [i \in 1..Len(others) |-> Edit(RangeOf(others[i]), newName)])))

\* The header a node names at the position, "" when it names none: the
\* Ident of a SET, UNSET or ADD statement, or an IDENT node, whose token
\* covers the position.
HeaderAt(node, position) ==
  LET Covers(n) ==
        /\ position.line = n.Line - 1
        /\ position.character >= n.Position - 1
        /\ position.character <= n.Position - 1 + Len(n.Literal)
  IN  IF /\ node.Type = "IDENT" /\ node.Value # ""
         /\ Covers(node) /\ HTTP_HEADER_PATTERN(node.Value)
      THEN node.Value
      ELSE IF node.Type \in {"SET", "UNSET", "ADD"}
      THEN With(Field(node, "Ident"), LAMBDA ident :
             IF /\ ident # NoNode /\ ident.Value # ""
                /\ Covers(ident) /\ HTTP_HEADER_PATTERN(ident.Value)
             THEN ident.Value ELSE "")
      ELSE ""

\* getHttpHeaderAtPosition: the header of the first node, in walk order,
\* that names one at the position; "" for null.
getHttpHeaderAtPosition(ast, position) ==
  IF ast = NoAST THEN ""
  ELSE With(walkAST(ast), LAMBDA nodes :
         With({i \in 1..Len(nodes) : HeaderAt(nodes[i], position) # ""}, LAMBDA hits :
           IF hits = {} THEN ""
           ELSE HeaderAt(nodes[CHOOSE i \in hits : \A j \in hits : i <= j], position)))

\* getHeaderRange
getHeaderRange(lines, position, headerName) ==
  With(IndexOfFrom(getLine(lines, position), headerName, 0), LAMBDA headerIndex :
    LET start == IF headerIndex >= 0 THEN headerIndex ELSE position.character
    IN  Range(Pos(position.line, start), Pos(position.line, start + Len(headerName))))

\* The locations of `locs` without those whose line and position an
\* earlier one has.
RECURSIVE Deduplicate(_, _)
Deduplicate(locs, seen) ==
  IF Len(locs) = 0 THEN <<>>
  ELSE LET key == <<Head(locs).line, Head(locs).position>>
       IN  IF key \in seen THEN Deduplicate(Tail(locs), seen)
           ELSE <<Head(locs)>> \o Deduplicate(Tail(locs), seen \cup {key})

\* The locations one node contributes to getHttpHeaderRenameEdits.
HeaderLocations(node, headerName) ==
  (IF node.Type \in {"SET", "UNSET", "ADD"}
   THEN With(Field(node, "Ident"), LAMBDA ident :
          IF ident # NoNode /\ ident.Value = headerName
          THEN <<Location(ident)>> ELSE <<>>)
   ELSE <<>>)
    \o (IF node.Type = "IDENT" /\ node.Value = headerName
        THEN <<Location(node)>> ELSE <<>>)

RECURSIVE AllHeaderLocations(_, _, _)
AllHeaderLocations(nodes, i, headerName) ==
  IF i > Len(nodes) THEN <<>>
  ELSE HeaderLocations(nodes[i], headerName)
         \o AllHeaderLocations(nodes, i + 1, headerName)

\* getHttpHeaderRenameEdits: one edit per distinct location of the header.
getHttpHeaderRenameEdits(ast, headerName, newName) ==
  IF ast = NoAST THEN <<>>
  ELSE With(walkAST(ast), LAMBDA nodes :
         With(AllHeaderLocations(nodes, 1, headerName), LAMBDA found :
           With(Deduplicate(found, {}), LAMBDA locs :
             [i \in 1..Len(locs) |-> Edit(RangeOf(locs[i]), newName)])))

\* The matches of /[a-zA-Z_][a-zA-Z0-9_-]*/g in a line, as [start, end)
\* pairs of 0-based indices: in every maximal run of [a-zA-Z0-9_-], from
\* its first letter or underscore to its end.
WordMatches(line) ==
  LET IsStart(c) == c \in LowerChars \cup UpperChars \cup {"_"}
      IsCont(c)  == IsWordChar(c) \/ c = "-"
      RunEnd(i)  == CHOOSE e \in i..Len(line) :
                      /\ \A k \in i..e : IsCont(Ch(line, k))
                      /\ e = Len(line) \/ ~IsCont(Ch(line, e + 1))
      InMatch(i) == \E k \in 1..(i - 1) :
                      /\ IsStart(Ch(line, k))
                      /\ \A m \in k..(i - 1) : IsCont(Ch(line, m))
  IN  {<<i - 1, RunEnd(i)>> : i \in {i \in 1..Len(line) :
                                       IsStart(Ch(line, i)) /\ ~InMatch(i)}}

\* findWordIndexInLine
findWordIndexInLine(line, word, charPos) ==
  With({m \in WordMatches(line) :
          /\ charPos >= m[1] /\ charPos <= m[2]
          /\ SubSeq(line, m[1] + 1, m[2]) = word}, LAMBDA hits :
    IF hits # {}
    THEN (CHOOSE m \in hits : \A n \in hits : m[1] <= n[1])[1]
    ELSE With(IndexOfFrom(line, word, Max(0, charPos - Len(word))), LAMBDA idx :
           IF idx >= 0 THEN idx ELSE charPos))

\* getWordRange
getWordRange(lines, position, word) ==
  With(getLine(lines, position), LAMBDA line :
    With(findWordIndexInLine(line, word, position.character), LAMBDA wordIndex :
      Range(Pos(position.line, wordIndex), Pos(position.line, wordIndex + Len(word)))))

(***************************************************************************)
(* rename-provider: prepare and resolve; references-provider: resolve.     *)
(* Each takes the document documentCache.get returned (its lines and its   *)
(* AST) and the symbol list getSymbolInformation returns for its URI.      *)
(***************************************************************************)

\* symbols.find(test): the first symbol that passes, Null for undefined.
Find(symbols, Test(_)) ==
  With({i \in 1..Len(symbols) : Test(symbols[i])}, LAMBDA hits :
    IF hits = {} THEN Null
    ELSE symbols[CHOOSE i \in hits : \A j \in hits : i <= j])

\* The position lies in the range, both ends included, line and character
\* compared separately.
InRange(position, range) ==
  /\ position.line >= range.start.line
  /\ position.line <= range.end.line
  /\ position.character >= range.start.character
  /\ position.character <= range.end.character

\* The symbol the global branch of both resolvers settles on: the one
\* whose definition the cursor is on, else the one of the type the usage
\* on the cursor's line indicates, else the first one of that name.
GlobalSymbol(lines, symbols, position, word) ==
  LET OnDefinition(s) == s.name = word /\ InRange(position, s.selectionRange)
      Named(s) == s.name = word
  IN  With(Find(symbols, OnDefinition), LAMBDA first :
        IF first # Null THEN first
        ELSE With(detectSymbolTypeFromUsage(lines, position, word), LAMBDA symbolType :
               LET OfType(s) == s.name = word /\ s.detail = symbolType
               IN  With(IF symbolType # "" THEN Find(symbols, OfType) ELSE Null,
                        LAMBDA second :
                          IF second = Null THEN Find(symbols, Named) ELSE second)))

\* findSymbolByName
findSymbolByName(symbols, name) ==
  LET Named(s) == s.name = name IN Find(symbols, Named)

PrepareResult(range, placeholder) == [range |-> range, placeholder |-> placeholder]

\* renameProvider.prepare
renameProvider_prepare(lines, ast, symbols, position) ==
  With(getWord(lines, position), LAMBDA word :
    IF word = "" THEN Null
    ELSE IF word \in BUILTIN_SUBROUTINES THEN Null
    ELSE With(getHttpHeaderAtPosition(ast, position), LAMBDA headerName :
           IF ast # NoAST /\ headerName # "" /\ HTTP_HEADER_PATTERN(headerName)
           THEN PrepareResult(getHeaderRange(lines, position, headerName), headerName)
           ELSE PrepareResult(getWordRange(lines, position, word), word)))

WorkspaceEdit(edits) == [changes |-> edits]

\* renameProvider.resolve
renameProvider_resolve(lines, ast, symbols, position, newName) ==
  LET HeaderEdits(headerName) ==
        IF ast # NoAST /\ headerName # "" /\ HTTP_HEADER_PATTERN(headerName)
        THEN getHttpHeaderRenameEdits(ast, headerName, newName)
        ELSE <<>>
  IN  With(getWord(lines, position), LAMBDA word :
        IF word = "" THEN Null
        ELSE IF word \in BUILTIN_SUBROUTINES THEN Null
        ELSE
          With(With(getHttpHeaderAtPosition(ast, position), HeaderEdits), LAMBDA headerEdits :
            IF Len(headerEdits) > 0 THEN WorkspaceEdit(headerEdits)
            ELSE
              With(getLocalVariableRenameEdits(ast, word, position, newName),
                   LAMBDA localEdits :
                IF Len(localEdits) > 0 THEN WorkspaceEdit(localEdits)
                ELSE
                  With(GlobalSymbol(lines, symbols, position, word), LAMBDA symbol :
                    IF symbol = Null THEN Null
                    ELSE WorkspaceEdit(
                           <<Edit(symbol.selectionRange, newName)>>
                             \o getUsageRenameEdits(lines, word, symbol.detail, newName))))))

\* findLocalVariableReferences
findLocalVariableReferences(ast, name, position, includeDeclaration) ==
  IF ast = NoAST THEN <<>>
  ELSE
    With(findContainingSubroutine(ast, position), LAMBDA containingSub :
      IF containingSub = NoNode THEN <<>>
      ELSE IF ~isLocalVariableOrParameter(containingSub, name) THEN <<>>
      ELSE
        With(findDeclarationLocation(containingSub, name), LAMBDA declaration :
          With(findVariableUsagesInBlock(containingSub, name), LAMBDA usages :
            (IF includeDeclaration /\ declaration # Null
             THEN <<RangeOf(declaration)>> ELSE <<>>)
              \o [i \in 1..Len(usages) |-> RangeOf(usages[i])])))

\* findUsages of references-provider
findUsages(lines, name, symbolType) == UsageRanges(lines, name, symbolType)

\* referencesProvider.resolve: the ranges of the locations returned (all
\* are in the document asked about).
referencesProvider_resolve(lines, ast, symbols, position, includeDeclaration) ==
  With(getWord(lines, position), LAMBDA word :
    IF word = "" THEN <<>>
    ELSE
      With(findLocalVariableReferences(ast, word, position, includeDeclaration),
           LAMBDA localReferences :
        IF Len(localReferences) > 0 THEN localReferences
        ELSE
          With(GlobalSymbol(lines, symbols, position, word), LAMBDA symbol :
            IF symbol = Null THEN <<>>
            ELSE (IF includeDeclaration THEN <<symbol.selectionRange>> ELSE <<>>)
                   \o findUsages(lines, word, symbol.detail))))

(***************************************************************************)
(* document-highlight-provider and definition-provider                     *)
(***************************************************************************)

\* An IdentifierLocation of the highlight provider.
IdentifierLocation(node, isWrite) ==
  [value |-> node.Value, line |-> node.Line - 1, position |-> node.Position - 1,
   length |-> Len(node.Literal), isWrite |-> isWrite]

DeclarationTypes ==
  {"ACL", "TABLE", "BACKEND", "DIRECTOR", "SUBROUTINE", "DECLARE",
   "PENALTYBOX", "RATECOUNTER"}

\* The node is an identifier token of that value.
IsIdent(node, word) == node # NoNode /\ node.Type = "IDENT" /\ node.Value = word

\* The locations of `nodes` that pass the test, in order.
LocationsOf(nodes, Test(_), isWrite) ==
  With(SelectSeq(nodes, Test), LAMBDA found :
    [i \in 1..Len(found) |-> IdentifierLocation(found[i], isWrite)])

\* checkValueNode: the value node itself and the function it calls.
checkValueNode(node, word) ==
  (IF IsIdent(node, word) THEN <<IdentifierLocation(node, FALSE)>> ELSE <<>>)
    \o With(Field(node, "Function"), LAMBDA function :
         IF function # NoNode /\ function.Value = word
         THEN <<IdentifierLocation(function, FALSE)>> ELSE <<>>)

\* What the walk callback of findHighlightsFromAST pushes for one node, in
\* the order of its tests.  The tests that skip a location already in the
\* list are left to deduplicateLocations, which keeps the first location
\* of every (line, position).
HighlightsAt(node, word) ==
  LET OfField(f, Test(_), isWrite) ==
        With(Field(node, f), LAMBDA n :
          IF n # NoNode /\ Test(n) THEN <<IdentifierLocation(n, isWrite)>> ELSE <<>>)
      Named(n)   == n.Type = "IDENT" /\ n.Value = word
      Valued(n)  == n.Value = word
      IsArg(n)   == IsIdent(n, word)
      IsParam(n) == Field(n, "Name") # NoNode /\ Field(n, "Name").Value = word
      Checked(f) ==
        With(Field(node, f), LAMBDA n :
          IF n # NoNode THEN checkValueNode(n, word) ELSE <<>>)
  IN  (IF IsIdent(node, word) THEN <<IdentifierLocation(node, FALSE)>> ELSE <<>>)
        \o OfField("Name", Named, node.Type \in DeclarationTypes)
        \o (IF node.Type \in {"SET", "UNSET", "ADD"}
            THEN OfField("Ident", Valued, TRUE) ELSE <<>>)
        \o LocationsOf(Elems(node, "Arguments"), IsArg, FALSE)
        \o With(SelectSeq(Elems(node, "Parameters"), IsParam), LAMBDA params :
             [i \in 1..Len(params) |->
                IdentifierLocation(Field(params[i], "Name"), TRUE)])
        \o (IF node.Operator \in {"~", "!~"}
            THEN OfField("Right", Named, FALSE) ELSE <<>>)
        \o OfField("Left", Named, FALSE)
        \o (IF node.Type = "CALL" THEN OfField("Subroutine", Valued, FALSE) ELSE <<>>)
        \o (IF node.Type = "RETURN" THEN Checked("Argument") ELSE <<>>)
        \o Checked("Condition")
        \o With(Field(node, "Value"), LAMBDA n :
             IF HasToken(n) THEN checkValueNode(n, word) ELSE <<>>)

RECURSIVE AllHighlights(_, _, _)
AllHighlights(nodes, i, word) ==
  IF i > Len(nodes) THEN <<>>
  ELSE HighlightsAt(nodes[i], word) \o AllHighlights(nodes, i + 1, word)

\* deduplicateLocations: the first location of every (line, position).
deduplicateLocations(locations) == Deduplicate(locations, {})

DocumentHighlight(range, kind) == [range |-> range, kind |-> kind]

\* findHighlightsFromAST
findHighlightsFromAST(ast, word) ==
  With(walkAST(ast), LAMBDA nodes :
    With(AllHighlights(nodes, 1, word), LAMBDA locations :
      With(deduplicateLocations(locations), LAMBDA uniqueLocations :
        [i \in 1..Len(uniqueLocations) |->
           DocumentHighlight(RangeOf(uniqueLocations[i]),
                             IF uniqueLocations[i].isWrite THEN "Write" ELSE "Read")])))

\* findSymbolHighlights: the definition of the first symbol of that name.
findSymbolHighlights(symbols, word) ==
  With(findSymbolByName(symbols, word), LAMBDA symbol :
    IF symbol = Null THEN <<>>
    ELSE <<DocumentHighlight(symbol.selectionRange, "Write")>>)

\* documentHighlightProvider.resolve
documentHighlightProvider_resolve(lines, ast, symbols, position) ==
  With(getWord(lines, position), LAMBDA word :
    IF word = "" THEN <<>>
    ELSE IF ast # NoAST THEN findHighlightsFromAST(ast, word)
    ELSE findSymbolHighlights(symbols, word))

\* A search for the declaration in every subroutine of the document.
findAnyDeclaration(ast, name, position) ==
  With(walkAST(ast), LAMBDA nodes :
    With({i \in 1..Len(nodes) :
            nodes[i].Type = "SUBROUTINE"
              /\ findDeclarationLocation(nodes[i], name) # Null}, LAMBDA hits :
      IF hits = {} THEN Null
      ELSE findDeclarationLocation(nodes[CHOOSE i \in hits : \A j \in hits : i <= j],
                                   name)))

\* findVariableDeclaration of definition-provider: in the subroutine that
\* contains the position (found as in rename-provider, by the same code),
\* the first parameter of that name, else the first declare statement of
\* that name in the block.
findVariableDeclaration(ast, name, position) ==
  With(findContainingSubroutine(ast, position), LAMBDA containingSub :
    IF containingSub = NoNode THEN Null
    ELSE
      LET IsParam(node)   == NameIs(node, name)
          IsDeclare(node) == node.Type = "DECLARE" /\ NameIs(node, name)
      IN  With(SelectSeq(Elems(containingSub, "Parameters"), IsParam), LAMBDA params :
            IF Len(params) > 0 THEN Location(Field(params[1], "Name"))
            ELSE With(SelectSeq(BlockNodes(containingSub), IsDeclare), LAMBDA declares :
                   IF Len(declares) > 0 THEN Location(Field(declares[1], "Name"))
                   ELSE Null)))

\* definitionProvider.resolve: the range of the location returned, Null
\* for null.
definitionProvider_resolve(lines, ast, symbols, position) ==
  With(getWord(lines, position), LAMBDA word :
    IF word = "" THEN Null
    ELSE With(findSymbolByName(symbols, word), LAMBDA symbol :
           IF symbol # Null THEN symbol.selectionRange
           ELSE IF ast = NoAST THEN Null
           ELSE With(findVariableDeclaration(ast, word, position), LAMBDA declaration :
                  IF declaration = Null THEN Null ELSE RangeOf(declaration))))

(***************************************************************************)
(* QuerySpec: a client that opens one document, asks for prepareRename,    *)
(* rename and references at the words of its text, applies the edits a     *)
(* rename returned, and retypes the text.  The request handled in the last *)
(* step is kept, with its response, until the next step.                   *)
(***************************************************************************)

\* The texts the client opens and edits.
QueryTexts ==
  {Render(ProgG(a, "helper")) : a \in GNames} \cup
  {Render(ProgG2(a, "helper")) : a \in GNames} \cup
  {Render(ProgL(v, w, "var.a")) : v \in VNames, w \in VNames} \cup
  {Render(ProgH(h, h)) : h \in HNames} \cup
  {Render(ProgB(b)) : b \in BNames} \cup
  {Render(ProgH("req.http.A", "req.http.Bc"))}

\* The text of the file on disk.
DiskTexts == {Render(ProgG("ab", "helper"))}

\* The texts the client retypes a text into: the declarations reordered.
Retyped(lines) ==
  QueryTexts \cap
    ({Render(ProgG2(n[1], n[2])) :
        n \in {n \in GNames \X GNames : Render(ProgG(n[1], n[2])) = lines}} \cup
     {Render(ProgG(n[1], n[2])) :
        n \in {n \in GNames \X GNames : Render(ProgG2(n[1], n[2])) = lines}})

\* The cursor positions of the requests: the start and the end of every
\* word of the text.
Cursors(lines) ==
  {q \in UNION {{Pos(l - 1, c) : c \in 0..Len(lines[l])} : l \in 1..Len(lines)} :
     LET line == lines[q.line + 1]
         IsIn(i) == i >= 1 /\ i <= Len(line) /\ IsIdentChar(Ch(line, i))
     IN  IsIn(q.character) # IsIn(q.character + 1)}

\* The new names the client asks for in a rename: a name of the kind of
\* the word.  The other requests carry no name.
NewNames(kind, word) ==
  IF kind # "rename" THEN {""}
  ELSE IF word \in GNames THEN GNames
  ELSE IF word \in VNames THEN VNames
  ELSE IF word \in HNames THEN HNames
  ELSE {"ab"}

\* The response of the handler of a request on the document it got.
Response(kind, doc, symbols, position, newName, includeDeclaration) ==
  CASE kind = "prepareRename" ->
         renameProvider_prepare(doc.text, doc.AST, symbols, position)
    [] kind = "rename" ->
         renameProvider_resolve(doc.text, doc.AST, symbols, position, newName)
    [] kind = "references" ->
         referencesProvider_resolve(doc.text, doc.AST, symbols, position,
                                    includeDeclaration)
    [] kind = "highlight" ->
         documentHighlightProvider_resolve(doc.text, doc.AST, symbols, position)
    [] kind = "definition" ->
         definitionProvider_resolve(doc.text, doc.AST, symbols, position)

Query(kind, u, position, newName, includeDeclaration, result) ==
  [kind |-> kind, uri |-> u, position |-> position, newName |-> newName,
   includeDeclaration |-> includeDeclaration, result |-> result]

\* A request on a URI is handled: documentCache.get(uri) returns the cached
\* document, or reads the file and caches a new document, or fails, in
\* which case the provider returns null (prepare, rename, definition) or []
\* (references, highlights).
\* The client sends a request when no response is outstanding.
Handle(kind, u, includeDeclaration) ==
  /\ lastQuery = NoQuery
  /\ \/ /\ QueryCached(u)
        /\ \E position \in Cursors(DocOf(u).text) :
             \E newName \in NewNames(kind, getWord(DocOf(u).text, position)) :
               lastQuery' = Query(kind, u, position, newName, includeDeclaration,
                                  Response(kind, DocOf(u), getSymbolInformation(u),
                                           position, newName, includeDeclaration))
     \/ \E text \in DiskTexts :
          /\ QueryLoads(u, text)
          /\ \E position \in Cursors(text) :
               \E newName \in NewNames(kind, getWord(text, position)) :
                 lastQuery' = Query(kind, u, position, newName, includeDeclaration,
                                    Response(kind, NewVclDocument(u, text),
                                             getSymbolInformation(u),
                                             position, newName, includeDeclaration))
     \/ /\ QueryLoadFails(u)
        /\ lastQuery' = Query(kind, u, Pos(0, 0), "", includeDeclaration,
                              IF kind \in {"references", "highlight"}
                              THEN <<>> ELSE Null)
  /\ UNCHANGED <<history, lastRename>>

\* connection.onPrepareRename(renameProvider.prepare)
PrepareRenameRequest(u) == Handle("prepareRename", u, FALSE)

\* connection.onRenameRequest(renameProvider.resolve)
RenameRequest(u) == Handle("rename", u, FALSE)

\* connection.onReferences(referencesProvider.resolve)
ReferencesRequest(u, includeDeclaration) == Handle("references", u, includeDeclaration)

\* The edits of a rename response (none for null).
EditsOf(result) == IF result = Null THEN <<>> ELSE result.changes

\* Two ranges intersect: each starts before the other ends.
Before(p, q) ==
  p.line < q.line \/ (p.line = q.line /\ p.character < q.character)

Intersect(r1, r2) == Before(r1.start, r2.end) /\ Before(r2.start, r1.end)

\* The client applies a WorkspaceEdit only if every edit lies in one line
\* of the text and no two edits intersect.
Applicable(lines, edits) ==
  /\ \A i \in 1..Len(edits) :
       /\ edits[i].range.start.line = edits[i].range.end.line
       /\ edits[i].range.start.line + 1 \in 1..Len(lines)
       /\ edits[i].range.start.character <= edits[i].range.end.character
       /\ edits[i].range.end.character <= Len(lines[edits[i].range.start.line + 1])
  /\ \A i, j \in 1..Len(edits) :
       i # j => ~Intersect(edits[i].range, edits[j].range)

\* A line with the edits of the set es, all in this line, applied to it:
\* from the rightmost to the leftmost.
RECURSIVE ApplyToLine(_, _)
ApplyToLine(line, es) ==
  IF es = {} THEN line
  ELSE LET e == CHOOSE e \in es :
                  \A f \in es : f.range.start.character <= e.range.start.character
       IN  ApplyToLine(SubSeq(line, 1, e.range.start.character) \o e.newText
                         \o SubSeq(line, e.range.end.character + 1, Len(line)),
                       es \ {e})

\* The text after the client has applied the edits.
ApplyEdits(lines, edits) ==
  [l \in 1..Len(lines) |->
     ApplyToLine(lines[l],
                 {edits[i] : i \in {i \in 1..Len(edits) : edits[i].range.start.line = l - 1}})]

\* Where the text of each edit begins once all of them are applied.
Occurrences(edits) ==
  {LET e == edits[i]
       same == {j \in 1..Len(edits) :
                  /\ edits[j].range.start.line = e.range.start.line
                  /\ edits[j].range.start.character < e.range.start.character}
       RECURSIVE Shift(_)
       Shift(S) ==
         IF S = {} THEN 0
         ELSE LET j == CHOOSE j \in S : TRUE
              IN  Len(edits[j].newText)
                    - (edits[j].range.end.character - edits[j].range.start.character)
                    + Shift(S \ {j})
   IN  Pos(e.range.start.line, e.range.start.character + Shift(same))
   : i \in 1..Len(edits)}

\* The name occurs nowhere in the text.
Fresh(lines, name) ==
  \A l \in 1..Len(lines) : \A i \in 1..Len(lines[l]) : ~HasAt(lines[l], i, name)

\* No lint run of a document is scheduled or in flight.
Settled == timers = {} /\ lints = EmptyBag

\* The client applies the edits of the rename response it just received
\* and, if they change the text, sends the text that results in a
\* didChange.
ApplyRename(u) ==
  /\ lastQuery.kind = "rename"
  /\ lastQuery.uri = u
  /\ lastQuery.result # Null
  /\ Settled
  /\ u \in opened
  /\ LET lines == DocOf(u).text
         edits == EditsOf(lastQuery.result)
     IN  /\ Applicable(lines, edits)
         /\ ApplyEdits(lines, edits) \in QueryTexts \ {lines}
         /\ DidChange(u, ApplyEdits(lines, edits))
         /\ lastRename' = [applied |-> TRUE, newName |-> lastQuery.newName,
                           occurrences |-> Occurrences(edits),
                           fresh |-> Fresh(lines, lastQuery.newName)]
  /\ lastQuery' = NoQuery
  /\ UNCHANGED history

\* The client retypes the text while the server is idle.
Retype(u) ==
  /\ Settled
  /\ u \in opened
  /\ \E text \in Retyped(DocOf(u).text) : DidChange(u, text)
  /\ lastQuery' = NoQuery
  /\ lastRename' = NoRename
  /\ UNCHANGED history

QueryURIs == {"file:///a.vcl"}

\* The steps other than requests: the client opens and retypes, timers
\* fire, time passes and lint runs proceed.
Editing ==
  \/ \E u \in QueryURIs, text \in QueryTexts :
       DidOpen(u, text) /\ lastQuery' = NoQuery /\ lastRename' = NoRename
         /\ UNCHANGED history
  \/ \E u \in QueryURIs : Retype(u)
  \/ \E t \in timers : TimerFires(t) /\ lastQuery' = NoQuery /\ UNCHANGED <<history, lastRename>>
  \/ Tick /\ lastQuery' = NoQuery /\ UNCHANGED <<history, lastRename>>
  \/ \E l \in BagToSet(lints) :
       LintSettings(l) /\ lastQuery' = NoQuery /\ UNCHANGED <<history, lastRename>>
  \/ \E l \in BagToSet(lints) :
       LintCompletes(l) /\ lastQuery' = NoQuery /\ UNCHANGED <<history, lastRename>>

QueryNext ==
  \/ Editing
  \/ \E u \in QueryURIs : PrepareRenameRequest(u)
  \/ \E u \in QueryURIs : RenameRequest(u)
  \/ \E u \in QueryURIs, includeDeclaration \in BOOLEAN : ReferencesRequest(u, includeDeclaration)

\* The client supports workspace/configuration and has linting enabled.
QueryInit == Init /\ hasConfigurationCapability /\ clientConfig

QuerySpec == QueryInit /\ [][QueryNext]_vars

(***************************************************************************)
(* RenameSpec: the client of QuerySpec, which also applies the edits of a  *)
(* rename and asks for a rename again.                                     *)
(***************************************************************************)

RenameNext ==
  \/ Editing
  \/ \E u \in QueryURIs : RenameRequest(u)
  \/ \E u \in QueryURIs : ApplyRename(u)

RenameSpec == QueryInit /\ [][RenameNext]_vars


(***************************************************************************)
(* NavSpec: a client that opens, closes and re-opens one document, breaks  *)
(* and repairs its text, and asks for highlights, the definition, the      *)
(* references and the document symbols.                                    *)
(***************************************************************************)

\* The programs the client works on: two subroutines with a local variable
\* of one name, global symbols with their uses, and a syntax error.
NavPrograms ==
  {ProgL("var.a", "var.a", "var.bc"), ProgG("ab", "helper"), ProgBad}

NavTexts == {Render(prog) : prog \in NavPrograms}

\* The client breaks a text by deleting its end, and repairs it.
Broken(lines) ==
  IF lines = Render(ProgG("ab", "helper")) THEN {Render(ProgBad)}
  ELSE IF lines = Render(ProgBad) THEN {Render(ProgG("ab", "helper"))}
  ELSE {}

NavRetype(u) ==
  /\ Settled
  /\ u \in opened
  /\ \E text \in Broken(DocOf(u).text) : DidChange(u, text)

\* connection.onDocumentHighlight(documentHighlightProvider.resolve)
DocumentHighlightRequest(u) == Handle("highlight", u, FALSE)

\* connection.onDefinition(definitionProvider.resolve)
DefinitionRequest(u) == Handle("definition", u, FALSE)

\* connection.onDocumentSymbol: [] without a document, else
\* getSymbolInformation(document).
DocumentSymbolRequest(u) ==
  /\ lastQuery = NoQuery
  /\ \/ QueryCached(u)
     \/ \E text \in DiskTexts : QueryLoads(u, text)
     \/ QueryLoadFails(u)
  /\ lastQuery' = Query("documentSymbol", u, Pos(0, 0), "", FALSE,
                        IF documents'[u] = 0 THEN <<>> ELSE getSymbolInformation(u))
  /\ UNCHANGED <<history, lastRename>>

\* The steps of NavSpec other than requests.
NavEditing ==
  \/ \E u \in QueryURIs, text \in NavTexts : DidOpen(u, text)
  \/ \E u \in QueryURIs : DidClose(u)
  \/ \E u \in QueryURIs : NavRetype(u)
  \/ \E t \in timers : TimerFires(t)
  \/ Tick
  \/ \E l \in BagToSet(lints) : LintSettings(l)
  \/ \E l \in BagToSet(lints) : LintCompletes(l)

NavNext ==
  \/ NavEditing /\ lastQuery' = NoQuery /\ UNCHANGED <<history, lastRename>>
  \/ \E u \in QueryURIs : DocumentHighlightRequest(u)
  \/ \E u \in QueryURIs : DefinitionRequest(u)
  \/ \E u \in QueryURIs, includeDeclaration \in BOOLEAN : ReferencesRequest(u, includeDeclaration)
  \/ \E u \in QueryURIs : DocumentSymbolRequest(u)

NavSpec == QueryInit /\ [][NavNext]_vars

(***************************************************************************)
(* folding-range-provider                                                  *)
(***************************************************************************)

FOLDABLE_BLOCK_TYPES ==
  {"BACKEND", "ACL", "TABLE", "DIRECTOR", "RATECOUNTER", "PENALTYBOX",
   "SUBROUTINE", "IF", "ELSE"}

FoldingRange(startLine, endLine, kind) ==
  [startLine |-> startLine, endLine |-> endLine, kind |-> kind]

\* A callback that would fold every foldable node up to its closing brace,
\* nested subroutines and one-line blocks included.
FoldAny(lines, node) ==
  IF ~HasToken(node) THEN <<>>
  ELSE IF node.Type \notin FOLDABLE_BLOCK_TYPES THEN <<>>
  ELSE With(getClosingBracePosition(lines, positionFromNode(node)), LAMBDA endPosition :
         IF endPosition # NoNode
         THEN <<FoldingRange(node.Line - 1, endPosition.line, "region")>>
         ELSE <<>>)

\* The walk callback of getASTFoldingRanges: the fold of one node.
FoldAt(lines, node) ==
  IF ~HasToken(node) THEN <<>>
  ELSE IF node.Type \notin FOLDABLE_BLOCK_TYPES THEN <<>>
  ELSE IF node.Type = "SUBROUTINE" /\ node.Nest # 0 THEN <<>>
  ELSE With(getClosingBracePosition(lines, positionFromNode(node)), LAMBDA endPosition :
         IF endPosition # NoNode /\ endPosition.line > node.Line - 1
         THEN <<FoldingRange(node.Line - 1, endPosition.line, "region")>>
         ELSE <<>>)

RECURSIVE AllFolds(_, _, _)
AllFolds(lines, nodes, i) ==
  IF i > Len(nodes) THEN <<>>
  ELSE FoldAt(lines, nodes[i]) \o AllFolds(lines, nodes, i + 1)

getASTFoldingRanges(lines, ast) ==
  IF ast = NoAST THEN <<>> ELSE AllFolds(lines, walkAST(ast), 1)

\* line.trim().startsWith("#")
IsLineComment(line) == HasAt(line, SkipSpaces(line, 1), "#")

\* The loop of getCommentFoldingRanges from 0-based line i, and what
\* follows the loop; -1 stands for no start.
RECURSIVE CommentFoldsFrom(_, _, _, _, _, _)
CommentFoldsFrom(lines, i, inBlockComment, blockCommentStart, consecutiveLineCommentStart, lastLineCommentLine) ==
  IF i >= Len(lines)
  THEN (IF inBlockComment /\ blockCommentStart # -1
        THEN <<FoldingRange(blockCommentStart, Len(lines) - 1, "comment")>>
        ELSE <<>>)
         \o (IF consecutiveLineCommentStart # -1
                  /\ lastLineCommentLine > consecutiveLineCommentStart
             THEN <<FoldingRange(consecutiveLineCommentStart, lastLineCommentLine,
                                 "comment")>>
             ELSE <<>>)
  ELSE
    LET line == lines[i + 1]
        blockStart == IndexOfFrom(line, "/*", 0)
        opens  == /\ ~inBlockComment
                  /\ blockStart # -1
                  /\ IndexOfFrom(line, "*/", blockStart + 2) = -1
        closes == inBlockComment /\ IndexOfFrom(line, "*/", 0) # -1
        inBlock == IF opens THEN TRUE ELSE IF closes THEN FALSE ELSE inBlockComment
        start   == IF opens THEN i ELSE IF closes THEN -1 ELSE blockCommentStart
        isComment == ~inBlock /\ IsLineComment(line)
    IN  (IF closes /\ i > blockCommentStart
         THEN <<FoldingRange(blockCommentStart, i, "comment")>> ELSE <<>>)
          \o (IF ~isComment /\ consecutiveLineCommentStart # -1
                   /\ lastLineCommentLine > consecutiveLineCommentStart
              THEN <<FoldingRange(consecutiveLineCommentStart, lastLineCommentLine,
                                  "comment")>>
              ELSE <<>>)
          \o CommentFoldsFrom(lines, i + 1, inBlock, start,
               IF isComment
               THEN (IF consecutiveLineCommentStart = -1 THEN i
                     ELSE consecutiveLineCommentStart)
               ELSE -1,
               IF isComment THEN i ELSE -1)

getCommentFoldingRanges(lines) == CommentFoldsFrom(lines, 0, FALSE, -1, -1, -1)

\* foldingRangeProvider.resolve
foldingRangeProvider_resolve(lines, ast) ==
  getASTFoldingRanges(lines, ast) \o getCommentFoldingRanges(lines)

\* connection.onFoldingRanges(foldingRangeProvider.resolve): [] without a
\* document.
FoldingRangeRequest(u) ==
  /\ lastQuery = NoQuery
  /\ \/ /\ QueryCached(u)
        /\ lastQuery' = Query("foldingRange", u, Pos(0, 0), "", FALSE,
                              foldingRangeProvider_resolve(DocOf(u).text, DocOf(u).AST))
     \/ \E text \in DiskTexts :
          /\ QueryLoads(u, text)
          /\ lastQuery' = Query("foldingRange", u, Pos(0, 0), "", FALSE,
                                foldingRangeProvider_resolve(text, NoAST))
     \/ /\ QueryLoadFails(u)
        /\ lastQuery' = Query("foldingRange", u, Pos(0, 0), "", FALSE, <<>>)
  /\ UNCHANGED <<history, lastRename>>

(***************************************************************************)
(* selection-range-provider                                                *)
(***************************************************************************)

NodeRange(range, type) == [range |-> range, type |-> type]

\* The class [\w\d._:-] of getWordRangeAtPosition.
IsSelectionWordChar(c) == IsIdentChar(c) \/ c = ":"

RECURSIVE ExpandLeft(_, _)
ExpandLeft(line, start) ==
  IF start > 0 /\ IsSelectionWordChar(Ch(line, start)) THEN ExpandLeft(line, start - 1)
  ELSE start

RECURSIVE ExpandRight(_, _)
ExpandRight(line, end) ==
  IF end < Len(line) /\ IsSelectionWordChar(Ch(line, end + 1))
  THEN ExpandRight(line, end + 1)
  ELSE end

getWordRangeAtPosition(lines, position) ==
  With(getLine(lines, position), LAMBDA line :
    Range(Pos(position.line, ExpandLeft(line, position.character)),
          Pos(position.line, ExpandRight(line, position.character))))

\* line.trimEnd().length
RECURSIVE TrimmedEnd(_, _)
TrimmedEnd(line, n) ==
  IF n > 0 /\ IsSpaceChar(Ch(line, n)) THEN TrimmedEnd(line, n - 1) ELSE n

getLineRange(lines, position) ==
  With(getLine(lines, position), LAMBDA line :
    Range(Pos(position.line, SkipSpaces(line, 1) - 1),
          Pos(position.line, TrimmedEnd(line, Len(line)))))

rangeContainsPosition(range, position) ==
  /\ ~(position.line < range.start.line \/ position.line > range.end.line)
  /\ ~(position.line = range.start.line /\ position.character < range.start.character)
  /\ ~(position.line = range.end.line /\ position.character > range.end.character)

\* TextDocument.offsetAt over the text whose lines are joined by "\n": a
\* line past the end gives the length of the text, a character past the
\* end of its line the offset of the next line.
RECURSIVE LineOffset(_, _)
LineOffset(lines, l) ==
  IF l = 0 THEN 0 ELSE LineOffset(lines, l - 1) + Len(lines[l]) + 1

ContentLength(lines) == IF Len(lines) = 0 THEN 0 ELSE LineOffset(lines, Len(lines)) - 1

offsetAt(lines, position) ==
  IF position.line >= Len(lines) THEN ContentLength(lines)
  ELSE LET lineOffset == LineOffset(lines, position.line)
           nextLineOffset == IF position.line + 1 < Len(lines)
                             THEN LineOffset(lines, position.line + 1)
                             ELSE ContentLength(lines)
       IN  Max(Min(lineOffset + position.character, nextLineOffset), lineOffset)

rangeSize(range, lines) == offsetAt(lines, range.end) - offsetAt(lines, range.start)

\* getNodeRange: the NodeRange of a node, NoNode for null.
getNodeRange(node, lines) ==
  IF ~HasToken(node) THEN NoNode
  ELSE
    LET start == positionFromNode(node) IN
    IF node.Type \in BlockTypes \cup {"IF", "ELSE", "ELSIF"}
    THEN With(getClosingBracePosition(lines, start), LAMBDA endPos :
           IF endPos = NoNode THEN NoNode
           ELSE NodeRange(Range(start, Pos(endPos.line, endPos.character + 1)),
                          node.Type))
    ELSE IF node.Type \in {"SET", "UNSET", "ADD", "CALL", "RETURN", "ERROR", "RESTART",
                           "SYNTHETIC", "LOG", "DECLARE", "INCLUDE"}
    THEN With(getLine(lines, Pos(start.line, 0)), LAMBDA line :
           With(IndexOfFrom(line, ";", start.character), LAMBDA semicolonPos :
             NodeRange(Range(start,
                             Pos(start.line,
                                 IF semicolonPos # -1 THEN semicolonPos + 1
                                 ELSE Len(line))),
                       node.Type)))
    ELSE IF node.Type \in {"STRING", "IDENT"} /\ node.Literal # ""
    THEN NodeRange(Range(start, Pos(start.line, start.character + Len(node.Literal))),
                   node.Type)
    ELSE NoNode

\* getBlockContentRange: the range between the braces, NoNode for null.
getBlockContentRange(node, lines) ==
  IF ~HasToken(node) \/ Field(node, "Block") = NoNode THEN NoNode
  ELSE IF node.Type \notin {"SUBROUTINE", "BACKEND", "ACL", "TABLE", "DIRECTOR",
                            "IF", "ELSE", "ELSIF"}
  THEN NoNode
  ELSE
    LET start == positionFromNode(node) IN
    With(IndexOfFrom(getLine(lines, Pos(start.line, 0)), "{", start.character),
         LAMBDA openBracePos :
      IF openBracePos = -1 THEN NoNode
      ELSE With(getClosingBracePosition(lines, start), LAMBDA endPos :
             IF endPos = NoNode THEN NoNode
             ELSE NodeRange(Range(Pos(start.line, openBracePos + 1), endPos),
                            node.Type \o "_CONTENT")))

\* The walk callback of getContainingRanges.
ContainingAt(node, lines, position) ==
  With(getNodeRange(node, lines), LAMBDA nodeRange :
    IF nodeRange = NoNode \/ ~rangeContainsPosition(nodeRange.range, position) THEN <<>>
    ELSE <<nodeRange>>
           \o With(getBlockContentRange(node, lines), LAMBDA blockContentRange :
                IF blockContentRange # NoNode
                     /\ rangeContainsPosition(blockContentRange.range, position)
                THEN <<blockContentRange>> ELSE <<>>))

RECURSIVE AllContaining(_, _, _, _)
AllContaining(nodes, i, lines, position) ==
  IF i > Len(nodes) THEN <<>>
  ELSE ContainingAt(nodes[i], lines, position)
         \o AllContaining(nodes, i + 1, lines, position)

getContainingRanges(lines, ast, position) ==
  With(getWordRangeAtPosition(lines, position), LAMBDA wordRange :
    With(getLineRange(lines, position), LAMBDA lineRange :
      (IF wordRange.start.character # wordRange.end.character
          \/ wordRange.start.line # wordRange.end.line
       THEN <<NodeRange(wordRange, "word")>> ELSE <<>>)
        \o (IF ast = NoAST THEN <<>> ELSE AllContaining(walkAST(ast), 1, lines, position))
        \o (IF rangeContainsPosition(lineRange, position)
            THEN <<NodeRange(lineRange, "line")>> ELSE <<>>)))

\* A sort that would leave the ranges in the order they were collected in.
unsorted(ranges, lines) == ranges

\* containingRanges.sort by rangeSize: a stable sort, smallest first.
RECURSIVE sortBySize(_, _)
sortBySize(ranges, lines) ==
  IF Len(ranges) = 0 THEN <<>>
  ELSE LET IsSmaller(r) == rangeSize(r.range, lines) < rangeSize(ranges[1].range, lines)
           NotSmaller(r) == ~IsSmaller(r)
       IN  sortBySize(SelectSeq(Tail(ranges), IsSmaller), lines)
             \o <<ranges[1]>>
             \o sortBySize(SelectSeq(Tail(ranges), NotSmaller), lines)

\* deduplicateRanges: the first of every start and end.
RECURSIVE deduplicateRanges(_, _)
deduplicateRanges(ranges, seen) ==
  IF Len(ranges) = 0 THEN <<>>
  ELSE IF Head(ranges).range \in seen THEN deduplicateRanges(Tail(ranges), seen)
  ELSE <<Head(ranges)>>
         \o deduplicateRanges(Tail(ranges), seen \cup {Head(ranges).range})

\* getSelectionRangeAtPosition: the ranges of the chain, from the innermost
\* along the parent pointers.
getSelectionRangeAtPosition(lines, ast, position) ==
  With(sortBySize(getContainingRanges(lines, ast, position), lines), LAMBDA sorted :
    With(deduplicateRanges(sorted, {}), LAMBDA uniqueRanges :
      IF Len(uniqueRanges) = 0 THEN <<getWordRangeAtPosition(lines, position)>>
      ELSE [i \in 1..Len(uniqueRanges) |-> uniqueRanges[i].range]))

\* selectionRangeProvider.resolve for the one position of the request.
selectionRangeProvider_resolve(lines, ast, position) ==
  <<getSelectionRangeAtPosition(lines, ast, position)>>

\* The positions of a text.
Positions(lines) ==
  UNION {{Pos(l - 1, c) : c \in 0..Len(lines[l])} : l \in 1..Len(lines)}

\* connection.onSelectionRanges(selectionRangeProvider.resolve): [] without
\* a document.
SelectionRangeRequest(u) ==
  /\ lastQuery = NoQuery
  /\ \/ /\ QueryCached(u)
        /\ \E position \in Positions(DocOf(u).text) :
             lastQuery' = Query("selectionRange", u, position, "", FALSE,
                                selectionRangeProvider_resolve(DocOf(u).text,
                                                               DocOf(u).AST, position))
     \/ \E text \in DiskTexts :
          /\ QueryLoads(u, text)
          /\ \E position \in Positions(text) :
               lastQuery' = Query("selectionRange", u, position, "", FALSE,
                                  selectionRangeProvider_resolve(text, NoAST, position))
     \/ /\ QueryLoadFails(u)
        /\ lastQuery' = Query("selectionRange", u, Pos(0, 0), "", FALSE, <<>>)
  /\ UNCHANGED <<history, lastRename>>

(***************************************************************************)
(* SymbolSpec: a client that opens a document of one of the layouts and    *)
(* asks for its symbols, its folding ranges and its selection ranges.       *)
(***************************************************************************)

SymbolNext ==
  \/ \E u \in QueryURIs, text \in LayoutTexts :
       DidOpen(u, text) /\ lastQuery' = NoQuery /\ UNCHANGED <<history, lastRename>>
  \/ \E l \in BagToSet(lints) :
       LintSettings(l) /\ lastQuery' = NoQuery /\ UNCHANGED <<history, lastRename>>
  \/ \E l \in BagToSet(lints) :
       LintCompletes(l) /\ lastQuery' = NoQuery /\ UNCHANGED <<history, lastRename>>
  \/ \E u \in QueryURIs : DocumentSymbolRequest(u)
  \/ \E u \in QueryURIs : FoldingRangeRequest(u)
  \/ \E u \in QueryURIs : SelectionRangeRequest(u)

SymbolSpec == QueryInit /\ [][SymbolNext]_vars

(***************************************************************************)
(* Claims about rename and references                                      *)
(***************************************************************************)

\* A request was handled on a document the cache holds.
Answered(kinds) == lastQuery.kind \in kinds /\ documents[lastQuery.uri] # 0

\* The text of the document the last request was about, and the word at
\* the position of the request.
QueryLines == DocOf(lastQuery.uri).text
QueryWord  == getWord(QueryLines, lastQuery.position)

\* C7: a prepareRename or rename request whose cursor is on one of the nine
\* built-in subroutine names is answered with null, whatever AST and
\* symbol list the server holds for the document.
C7_BuiltinsNeverRenamed ==
  (Answered({"prepareRename", "rename"}) /\ QueryWord \in BNames)
    => lastQuery.result = Null

\* A rename on vcl_deliver was refused while the server held an AST and
\* symbols for the document.
C7_Witness ==
  /\ Answered({"rename"})
  /\ QueryWord = "vcl_deliver"
  /\ AstOfUri(lastQuery.uri) # NoAST
  /\ getSymbolInformation(lastQuery.uri) # <<>>
  /\ lastQuery.result = Null

\* C8: no two edits of a rename response have intersecting ranges.
C8_RenameEditsDisjoint ==
  Answered({"rename"}) =>
    \A i, j \in 1..Len(EditsOf(lastQuery.result)) :
      i # j => ~Intersect(EditsOf(lastQuery.result)[i].range,
                          EditsOf(lastQuery.result)[j].range)

\* The rename asked for again: after the edits of a rename to a name the
\* text did not contain were applied and the text was linted again, a
\* rename to the same name at one of the resulting occurrences.
RenamedAgain ==
  /\ Answered({"rename"})
  /\ lastRename.applied
  /\ lastRename.fresh
  /\ Settled
  /\ AstOfUri(lastQuery.uri) = lintText(QueryLines)
  /\ lastQuery.newName = lastRename.newName
  /\ lastQuery.position \in lastRename.occurrences

\* C9: rename is idempotent: the rename asked for again yields an empty
\* edit set.
C9_RenameIdempotent ==
  RenamedAgain => EditsOf(lastQuery.result) = <<>>

\* The program whose text this is.
ProgramOf(lines) == CHOOSE p \in Programs : Render(p) = lines

\* The 0-based line ranges of the subroutines of a program.
Scopes(prog) ==
  {[first |-> l - 1, last |-> EndOf(prog, l) - 1] :
     l \in {l \in 1..Len(prog) : prog[l].k \in {"sub", "subp"} /\ EndOf(prog, l) > 0}}

\* The subroutine of the scope declares the name, as a parameter or as a
\* local variable.
DeclaresIn(prog, scope, name) ==
  \/ prog[scope.first + 1].k = "subp" /\ prog[scope.first + 1].b = name
  \/ \E l \in (scope.first + 2)..scope.last :
       prog[l].k = "declare" /\ prog[l].a = name

\* The ranges a response names: of the edits of a rename, of the
\* locations of references.
ResultRanges ==
  IF lastQuery.kind = "rename"
  THEN {EditsOf(lastQuery.result)[i].range : i \in 1..Len(EditsOf(lastQuery.result))}
  ELSE {lastQuery.result[i] : i \in 1..Len(lastQuery.result)}

\* The scopes A such that the request is at a position inside A, on a name
\* that A and another subroutine B both declare.
SharedNameScopes ==
  {A \in Scopes(ProgramOf(QueryLines)) :
     /\ lastQuery.position.line \in A.first..A.last
     /\ DeclaresIn(ProgramOf(QueryLines), A, QueryWord)
     /\ \E B \in Scopes(ProgramOf(QueryLines)) \ {A} :
          DeclaresIn(ProgramOf(QueryLines), B, QueryWord)}

\* C10: a references or rename request inside subroutine A, on a name that
\* A and another subroutine B both declare, returns only ranges whose
\* lines lie within A.
C10_ScopeIsolation ==
  Answered({"rename", "references"}) =>
    \A A \in SharedNameScopes :
      \A r \in ResultRanges :
        /\ r.start.line \in A.first..A.last
        /\ r.end.line \in A.first..A.last

\* References were asked for inside the second of two subroutines that
\* declare the name, and the declaration and two usages came back.
C10_Witness ==
  /\ Answered({"references"})
  /\ \E A \in SharedNameScopes : A.first > 0
  /\ Len(lastQuery.result) = 3


(***************************************************************************)
(* Claims about highlights, definitions and references (NavSpec, RefSpec)  *)
(***************************************************************************)

\* C11: a documentHighlights request inside subroutine A, on a name that A
\* and another subroutine B both declare, returns only highlights whose
\* lines lie within A.
C11_HighlightScopeIsolation ==
  Answered({"highlight"}) =>
    \A A \in SharedNameScopes :
      \A i \in 1..Len(lastQuery.result) :
        /\ lastQuery.result[i].range.start.line \in A.first..A.last
        /\ lastQuery.result[i].range.end.line \in A.first..A.last

\* The document the last request was about has the AST of its text.
QueryParsed ==
  /\ AstOfUri(lastQuery.uri) # NoAST
  /\ AstOfUri(lastQuery.uri) = lintText(QueryLines)

\* The range of the first occurrence of the name in 0-based line l.
NameRange(lines, l, name) ==
  With(IndexOfFrom(lines[l + 1], name, 0), LAMBDA at :
    Range(Pos(l, at), Pos(l, at + Len(name))))

\* The ranges of the declarations of the name in the subroutine of the
\* scope: its parameter and its declare statements of that name.
DeclarationRanges(prog, scope, name) ==
  {NameRange(Render(prog), l - 1, name) :
     l \in {l \in (scope.first + 1)..scope.last :
              \/ l = scope.first + 1 /\ prog[l].k = "subp" /\ prog[l].b = name
              \/ prog[l].k = "declare" /\ prog[l].a = name}}

\* The scopes that contain the position of the request and declare the
\* word at it.
DeclaringScopes ==
  {A \in Scopes(ProgramOf(QueryLines)) :
     /\ lastQuery.position.line \in A.first..A.last
     /\ DeclaresIn(ProgramOf(QueryLines), A, QueryWord)}

\* C12: a definition request on a name that the subroutine containing the
\* cursor declares, as a parameter or by declare local, is answered with
\* the range of a declaration of the name in that subroutine, whatever the
\* other subroutines of the document declare.
C12_DefinitionInScope ==
  (Answered({"definition"}) /\ QueryParsed) =>
    \A A \in DeclaringScopes :
      lastQuery.result \in DeclarationRanges(ProgramOf(QueryLines), A, QueryWord)

\* The definition was asked for in the second of two subroutines that
\* declare the name, at its use in a set statement, and the declaration in
\* the second subroutine came back.
C12_Witness ==
  /\ Answered({"definition"})
  /\ QueryParsed
  /\ \E A \in SharedNameScopes :
       /\ A.first > 0
       /\ ProgramOf(QueryLines)[lastQuery.position.line + 1].k = "set"
       /\ lastQuery.result # Null
       /\ lastQuery.result.start.line \in (A.first + 1)..A.last


(***************************************************************************)
(* RefSpec: a client that opens a document with global symbols and their   *)
(* uses and asks for the references of the words of its text.              *)
(***************************************************************************)

RefPrograms == {ProgG("ab", "helper"), ProgK} \cup {ProgT(fn) : fn \in TableFunctions}

RefTexts == {Render(prog) : prog \in RefPrograms}

RefNext ==
  \/ \E u \in QueryURIs, text \in RefTexts :
       DidOpen(u, text) /\ lastQuery' = NoQuery /\ UNCHANGED <<history, lastRename>>
  \/ \E l \in BagToSet(lints) :
       LintSettings(l) /\ lastQuery' = NoQuery /\ UNCHANGED <<history, lastRename>>
  \/ \E l \in BagToSet(lints) :
       LintCompletes(l) /\ lastQuery' = NoQuery /\ UNCHANGED <<history, lastRename>>
  \/ \E u \in QueryURIs, includeDeclaration \in BOOLEAN : ReferencesRequest(u, includeDeclaration)

RefSpec == QueryInit /\ [][RefNext]_vars

\* The 1-based lines of a program that declare a global symbol of the name.
GlobalDeclarations(prog, name) ==
  {l \in 1..Len(prog) :
     prog[l].k \in {"acl", "table", "backend", "sub", "subp"} /\ prog[l].a = name}

\* The 1-based lines of a program that use the global symbol declared on
\* line d: an ACL in a match, a table as the first argument of a table
\* function, a backend assigned to req.backend, a subroutine called.
GlobalUsages(prog, d) ==
  {l \in 1..Len(prog) :
     CASE prog[d].k = "acl"     -> prog[l].k = "ifacl" /\ prog[l].a = prog[d].a
       [] prog[d].k = "table"   -> prog[l].k = "iftable" /\ prog[l].b = prog[d].a
       [] prog[d].k = "backend" ->
            prog[l].k = "set" /\ prog[l].a = "req.backend" /\ prog[l].b = prog[d].a
       [] OTHER                 -> prog[l].k = "call" /\ prog[l].a = prog[d].a}

\* The range of the last occurrence of the name in 0-based line l.
LastNameRange(lines, l, name) ==
  With(LastIndexOf(lines[l + 1], name), LAMBDA at :
    Range(Pos(l, at), Pos(l, at + Len(name))))

\* The references of the global symbol declared on line d: its usages
\* and, if asked for, its declaration.
ExpectedReferences(prog, d, includeDeclaration) ==
  {LastNameRange(Render(prog), l - 1, prog[d].a) : l \in GlobalUsages(prog, d)}
    \cup (IF includeDeclaration
          THEN {LastNameRange(Render(prog), d - 1, prog[d].a)} ELSE {})

\* The declaration lines d of the global symbols declared once such that
\* the cursor of the request is on the name in the declaration or in one
\* of the usages.
CursorOnGlobal ==
  {d \in 1..Len(ProgramOf(QueryLines)) :
     /\ GlobalDeclarations(ProgramOf(QueryLines), QueryWord) = {d}
     /\ lastQuery.position.line + 1 \in {d} \cup GlobalUsages(ProgramOf(QueryLines), d)}

\* C13: for a global symbol declared once and used n times in a document
\* that holds the AST of its text, a references request with the cursor on
\* the declaration or on a usage returns the n usages, preceded by the
\* declaration when includeDeclaration is set: n + 1 or n locations.
C13_GlobalReferenceCount ==
  (Answered({"references"}) /\ QueryParsed) =>
    \A d \in CursorOnGlobal :
      LET expected == ExpectedReferences(ProgramOf(QueryLines), d,
                                         lastQuery.includeDeclaration)
      IN  /\ Len(lastQuery.result) = Cardinality(expected)
          /\ {lastQuery.result[i] : i \in 1..Len(lastQuery.result)} = expected


\* The ranges of the names in the declarations of the word the request is
\* at: of the local variable or parameter of that name in the subroutine
\* containing the cursor, and of the global symbols of that name.
DeclarationSites ==
  UNION {DeclarationRanges(ProgramOf(QueryLines), A, QueryWord) : A \in DeclaringScopes}
    \cup {LastNameRange(QueryLines, d - 1, QueryWord) :
            d \in GlobalDeclarations(ProgramOf(QueryLines), QueryWord)}

\* C14: a references request with includeDeclaration = false on a document
\* that holds the AST of its text returns no location at a declaration of
\* the symbol, be it global or local.
C14_DeclarationExcluded ==
  (Answered({"references"}) /\ QueryParsed /\ ~lastQuery.includeDeclaration) =>
    \A i \in 1..Len(lastQuery.result) : lastQuery.result[i] \notin DeclarationSites

\* The start positions of the entries of a response, in order.
ResultStarts ==
  IF lastQuery.kind = "rename"
  THEN [i \in 1..Len(EditsOf(lastQuery.result)) |->
          EditsOf(lastQuery.result)[i].range.start]
  ELSE IF lastQuery.kind = "highlight"
  THEN [i \in 1..Len(lastQuery.result) |-> lastQuery.result[i].range.start]
  ELSE [i \in 1..Len(lastQuery.result) |-> lastQuery.result[i].start]

\* C15: no response to a references, documentHighlights or rename request
\* holds two entries that start at the same line and character.
C15_NoDuplicateStarts ==
  Answered({"references", "highlight", "rename"}) =>
    \A i, j \in 1..Len(ResultStarts) : i # j => ResultStarts[i] # ResultStarts[j]

\* The empty result of a request: null for a definition and for a rename,
\* the empty list for the others.
EmptyResult(kind) == IF kind \in {"definition", "rename"} THEN Null ELSE <<>>

\* C16: a request for the definition, the references, the highlights or
\* the document symbols of a cached document that has no AST is answered
\* with the empty result.
C16_NoAstNoResults ==
  (Answered({"definition", "references", "highlight", "documentSymbol"})
     /\ AstOfUri(lastQuery.uri) = NoAST)
    => lastQuery.result = EmptyResult(lastQuery.kind)

\* A lint run of a document of this URI completes in this step, with or
\* without an AST.
LintCompletesWith(u, withAst) ==
  \E l \in BagToSet(lints) :
    /\ l.pc = "falco"
    /\ heap[l.doc].uri = u
    /\ (lintText(l.text) # NoAST) = withAst
    /\ LintCompletes(l)

\* C17: the completion of a lint run without an AST leaves the document
\* symbol-free, and a symbol-free document gets symbols only by the
\* completion of a lint run that returns an AST.
C17_SymbolFreeUntilParsed ==
  [][\A u \in URIs :
       /\ LintCompletesWith(u, FALSE) => getSymbolInformation(u)' = <<>>
       /\ (getSymbolInformation(u) = <<>> /\ getSymbolInformation(u)' # <<>>)
            => LintCompletesWith(u, TRUE)]_vars

\* An open document whose lint run has completed without an AST: the
\* text is a syntax error, linting is enabled, no run is pending, and the
\* URI has no symbols.
C17_Witness ==
  \E u \in opened :
    /\ Settled
    /\ documentSettings[u] = "on"
    /\ lintText(DocOf(u).text) = NoAST
    /\ AstOfUri(u) = NoAST
    /\ getSymbolInformation(u) = <<>>


(***************************************************************************)
(* Claims about the symbol table and the folding ranges (SymbolSpec)       *)
(***************************************************************************)

\* The symbols of a list together with their children.
WithChildren(symbols) ==
  {symbols[i] : i \in 1..Len(symbols)}
    \cup UNION {{symbols[i].children[j] : j \in 1..Len(symbols[i].children)} :
                  i \in 1..Len(symbols)}

\* The range inner lies within the range outer.
Within(inner, outer) ==
  ~Before(inner.start, outer.start) /\ ~Before(outer.end, inner.end)

\* C18: the selectionRange of every symbol of the symbol table, top-level
\* or child, lies within its range.
C18_SelectionWithinRange ==
  \A u \in URIs :
    \A symbol \in WithChildren(getSymbolInformation(u)) :
      Within(symbol.selectionRange, symbol.range)

\* The document cached for the URI has the AST of its text and no lint run
\* is pending: its symbols are those of that text.
Linted(u) ==
  /\ documents[u] # 0
  /\ Settled
  /\ AstOfUri(u) # NoAST
  /\ AstOfUri(u) = lintText(DocOf(u).text)

\* The block declarations of the AST of the URI's document, by nesting.
BlockDeclarations(u, nested) ==
  With(walkAST(AstOfUri(u)), LAMBDA nodes :
    {nodes[i] : i \in {i \in 1..Len(nodes) :
                         /\ nodes[i].Type \in BlockTypes
                         /\ (nodes[i].Nest # 0) = nested
                         /\ Field(nodes[i], "Name") # NoNode}})

\* The top-level symbols and the children that stand for the declaration
\* of a node: those whose selectionRange is the range of its name.
SymbolsFor(symbols, node) ==
  {i \in 1..Len(symbols) :
     symbols[i].selectionRange = selectionRangeFromNode(Field(node, "Name"))}

ChildrenFor(symbol, node) ==
  {j \in 1..Len(symbol.children) :
     symbol.children[j].selectionRange = selectionRangeFromNode(Field(node, "Name"))}

\* C19: a block declaration whose node carries Nest is a child of the last
\* top-level symbol that begins before it, and no top-level symbol.
C19_NestedBlockIsChild ==
  \A u \in URIs :
    Linted(u) =>
      \A node \in BlockDeclarations(u, TRUE) :
        \E symbols \in {getSymbolInformation(u)} :
          /\ SymbolsFor(symbols, node) = {}
          /\ \E i \in 1..Len(symbols) :
               /\ Before(symbols[i].range.start, positionFromNode(node))
               /\ \A j \in (i + 1)..Len(symbols) :
                    ~Before(symbols[j].range.start, positionFromNode(node))
               /\ ChildrenFor(symbols[i], node) # {}

\* The closing brace of the block of a declaration cannot be determined.
NoClosingBrace(u, node) ==
  getClosingBracePosition(DocOf(u).text, positionFromNode(node)) = NoNode

\* C20: a top-level block declaration whose closing brace cannot be
\* determined has no symbol and no fold, and every other top-level block
\* declaration has its symbol and, if its block ends on a later line, its
\* fold.
C20_NoClosingBraceOmitted ==
  \A u \in URIs :
    Linted(u) =>
      \A node \in BlockDeclarations(u, FALSE) :
        /\ (SymbolsFor(getSymbolInformation(u), node) = {}) = NoClosingBrace(u, node)
        /\ (lastQuery.kind = "foldingRange" /\ lastQuery.uri = u) =>
             LET folds == {i \in 1..Len(lastQuery.result) :
                             lastQuery.result[i].startLine = node.Line - 1}
             IN  IF NoClosingBrace(u, node) THEN folds = {}
                 ELSE With(getClosingBracePosition(DocOf(u).text, positionFromNode(node)),
                           LAMBDA end :
                        IF end.line > node.Line - 1
                        THEN \E i \in folds : lastQuery.result[i].endLine = end.line
                        ELSE folds = {})


\* The folds of a folding-range response that come from the AST.
RegionFolds ==
  {lastQuery.result[i] :
     i \in {i \in 1..Len(lastQuery.result) : lastQuery.result[i].kind = "region"}}

\* The subroutine nodes of the AST of the document asked about that carry
\* Nest.
NestedSubroutines ==
  IF AstOfUri(lastQuery.uri) = NoAST THEN {}
  ELSE With(walkAST(AstOfUri(lastQuery.uri)), LAMBDA nodes :
         {nodes[i] : i \in {i \in 1..Len(nodes) :
                              nodes[i].Type = "SUBROUTINE" /\ nodes[i].Nest # 0}})

\* C21: every fold of a folding-range response that comes from the AST
\* ends on or after the line it starts on, and none starts at a subroutine
\* node that carries Nest.
C21_FoldContainment ==
  Answered({"foldingRange"}) =>
    /\ \A fold \in RegionFolds : fold.endLine >= fold.startLine
    /\ \A node \in NestedSubroutines :
         \A fold \in RegionFolds : fold.startLine # node.Line - 1

\* The folds of a document with a nested subroutine whose block ends on a
\* later line were asked for, and a fold of the enclosing subroutine came
\* back.
C21_Witness ==
  /\ Answered({"foldingRange"})
  /\ RegionFolds # {}
  /\ \E node \in NestedSubroutines :
       Field(node, "Block").EndLine > node.Line


\* The chain of the selection range of the last request, from the innermost
\* range along the parents, and the span of a range in the text.
SelectionChain == lastQuery.result[1]
SpanOf(range) == offsetAt(QueryLines, range.end) - offsetAt(QueryLines, range.start)

\* C22: along the parent chain of a selection range, from the innermost
\* range outwards, the spans (end offset minus start offset) never decrease,
\* and no two ranges of the chain are identical.
C22_ChainOrdered ==
  Answered({"selectionRange"}) =>
    /\ \A i \in 1..(Len(SelectionChain) - 1) :
         SpanOf(SelectionChain[i]) <= SpanOf(SelectionChain[i + 1])
    /\ \A i, j \in 1..Len(SelectionChain) :
         i # j => SelectionChain[i] # SelectionChain[j]

\* A chain of a word, its line, a nested block and the enclosing subroutine.
C22_Witness ==
  /\ Answered({"selectionRange"})
  /\ Len(SelectionChain) >= 4
  /\ \E i \in 1..(Len(SelectionChain) - 1) :
       SelectionChain[i].end.line > SelectionChain[i].start.line


(***************************************************************************)
(* semantic-tokens-provider                                                *)
(***************************************************************************)

\* The indices of the token types and the bit masks of the modifiers.
TokenType ==
  [function |-> 0, variable |-> 1, parameter |-> 2, class |-> 3, type |-> 4,
   struct |-> 5, property |-> 6, regexp |-> 7, comment |-> 8, keyword |-> 9,
   string |-> 10, number |-> 11, operator |-> 12]

TokenModifier == [declaration |-> 1, defaultLibrary |-> 2, readonly |-> 4]

TokenInfo(line, character, length, tokenType, tokenModifiers) ==
  [line |-> line, character |-> character, length |-> length,
   tokenType |-> tokenType, tokenModifiers |-> tokenModifiers]

\* The keys of functions.json and of variables.json that occur in the
\* programs, and the read-only ones among the latter.
builtinFunctions == TableFunctions
builtinVariables == {"client.ip", "req.backend"}
readonlyVariables == {"client.ip"}

\* /^(req|resp|bereq|beresp|obj)\.http\./i
IsHttpHeaderName(name) ==
  \E p \in {"req.http.", "resp.http.", "bereq.http.", "beresp.http.", "obj.http."} :
    HasAt(name, 1, p)

\* The token of a node at its Token's position.
TokenAt(node, length, tokenType, tokenModifiers) ==
  TokenInfo(node.Line - 1, node.Position - 1, length, tokenType, tokenModifiers)

\* The token of a field that has a Token, none otherwise.
TokenOfField(node, f, tokenType, tokenModifiers) ==
  With(Field(node, f), LAMBDA child :
    IF HasToken(child)
    THEN <<TokenAt(child, Len(child.Value), tokenType, tokenModifiers)>>
    ELSE <<>>)

getVariableToken(identNode, varName, userObjects) ==
  IF ~HasToken(identNode) THEN <<>>
  ELSE IF IsHttpHeaderName(varName)
  THEN <<TokenAt(identNode, Len(varName), TokenType.property, 0)>>
  ELSE IF varName \in userObjects
  THEN <<TokenAt(identNode, Len(varName), TokenType.class, 0)>>
  ELSE IF HasAt(varName, 1, "var.")
  THEN <<TokenAt(identNode, Len(varName), TokenType.variable, 0)>>
  ELSE IF varName \in builtinVariables
  THEN <<TokenAt(identNode, Len(varName), TokenType.variable,
                 IF varName \in readonlyVariables
                 THEN TokenModifier.defaultLibrary + TokenModifier.readonly
                 ELSE TokenModifier.defaultLibrary)>>
  ELSE <<TokenAt(identNode, Len(varName), TokenType.variable, 0)>>

getVariableTokenFromIdent(node, userObjects) ==
  IF node.Value = "" \/ ~HasToken(node) THEN <<>>
  ELSE IF node.Value \in userObjects
  THEN <<TokenAt(node, Len(node.Value), TokenType.class, 0)>>
  ELSE <<>>

KeywordOf(node) == TokenAt(node, Len(node.Literal), TokenType.keyword, 0)

\* The tokens of the parameters of a subroutine: type, then name.
RECURSIVE ParameterTokens(_)
ParameterTokens(params) ==
  IF Len(params) = 0 THEN <<>>
  ELSE TokenOfField(Head(params), "Type", TokenType.type, 0)
         \o TokenOfField(Head(params), "Name", TokenType.parameter,
                         TokenModifier.declaration)
         \o ParameterTokens(Tail(params))

\* The switch on node.Token.Type of extractTokens.
SwitchTokens(node, userObjects) ==
  CASE node.Type \in {"ADD", "REMOVE", "BREAK", "ELSE", "ELSEIF", "ELSIF", "ERROR",
                      "FALLTHROUGH", "GOTO", "IF", "INCLUDE", "IMPORT", "LOG",
                      "RESTART", "RETURN", "SYNTHETIC", "SYNTHETIC_BASE64"} ->
         <<KeywordOf(node)>>
    [] node.Type = "CALL" ->
         <<KeywordOf(node)>> \o TokenOfField(node, "Subroutine", TokenType.function, 0)
    [] node.Type = "SUBROUTINE" ->
         <<KeywordOf(node)>>
           \o (IF HasToken(Field(node, "Name")) /\ node.Nest = 0
               THEN TokenOfField(node, "Name", TokenType.function,
                                 TokenModifier.declaration)
                      \o ParameterTokens(Elems(node, "Parameters"))
               ELSE <<>>)
    [] node.Type \in {"BACKEND", "DIRECTOR", "RATECOUNTER", "PENALTYBOX"} ->
         <<KeywordOf(node)>>
           \o TokenOfField(node, "Name", TokenType.class, TokenModifier.declaration)
    [] node.Type = "ACL" ->
         <<KeywordOf(node)>>
           \o TokenOfField(node, "Name", TokenType.type, TokenModifier.declaration)
    [] node.Type = "TABLE" ->
         <<KeywordOf(node)>>
           \o TokenOfField(node, "Name", TokenType.struct, TokenModifier.declaration)
    [] node.Type = "DECLARE" ->
         <<KeywordOf(node)>>
           \o TokenOfField(node, "ValueType", TokenType.type, 0)
           \o TokenOfField(node, "Name", TokenType.variable, TokenModifier.declaration)
    [] node.Type = "STRING" ->
         \* Token.Offset: the two quotes of a "..." literal.
         <<TokenAt(node, Len(node.Literal) + 2, TokenType.string, 0)>>
    [] node.Type \in {"INT", "FLOAT", "RTIME"} ->
         <<TokenAt(node, Len(node.Literal), TokenType.number, 0)>>
    [] node.Type \in {"PLUS", "MINUS"} ->
         <<TokenAt(node, Len(node.Literal), TokenType.operator, 0)>>
    [] node.Type \in {"SET", "UNSET"} ->
         <<KeywordOf(node)>>
           \o With(Field(node, "Ident"), LAMBDA ident :
                IF HasToken(ident) THEN getVariableToken(ident, ident.Value, userObjects)
                ELSE <<>>)
    [] node.Type = "IDENT" ->
         With(IF node.Value # "" THEN node.Value ELSE node.Literal, LAMBDA name :
           IF name # "" /\ name \in builtinFunctions THEN <<>>
           ELSE IF name # ""
                     /\ (IndexOfFrom(name, ".", 0) # -1 \/ name \in builtinVariables)
           THEN getVariableToken(node, name, userObjects)
           ELSE <<>>)
    [] OTHER -> <<>>

\* The function-call part of extractTokens: the name, and the pattern of
\* regsub and regsuball.
FunctionTokens(node) ==
  With(Field(node, "Function"), LAMBDA function :
    With(Elems(node, "Arguments"), LAMBDA arguments :
      IF ~HasToken(function) \/ Len(arguments) = 0 THEN <<>>
      ELSE <<TokenAt(function, Len(function.Value), TokenType.function,
                     IF function.Value \in builtinFunctions
                     THEN TokenModifier.defaultLibrary ELSE 0)>>
             \o (IF function.Value \in {"regsub", "regsuball"}
                      /\ Len(arguments) >= 2 /\ arguments[2].Type = "STRING"
                 THEN <<TokenAt(arguments[2], Len(arguments[2].Value) + 2,
                                TokenType.regexp, 0)>>
                 ELSE <<>>)))

\* The infix part of extractTokens: the pattern of a match and the operator.
\* An operand that is a single token ends on its line with its last
\* character.
InfixTokens(node) ==
  With(Field(node, "Left"), LAMBDA left :
    With(Field(node, "Right"), LAMBDA right :
      (IF node.Operator \in {"~", "!~"} /\ right # NoNode /\ right.Type = "STRING"
       THEN <<TokenAt(right, Len(right.Value) + 2, TokenType.regexp, 0)>>
       ELSE <<>>)
        \o (IF node.Operator # "" /\ HasToken(left) /\ HasToken(right)
                 /\ left.Line = right.Line
                 /\ right.Position - 2 - Len(node.Operator)
                      > left.Position + Len(left.Literal) - 2
            THEN <<TokenInfo(left.Line - 1, right.Position - 2 - Len(node.Operator),
                             Len(node.Operator), TokenType.operator, 0)>>
            ELSE <<>>)))

extractTokens(node, userObjects) ==
  IF ~HasToken(node) THEN <<>>
  ELSE SwitchTokens(node, userObjects)
         \o FunctionTokens(node)
         \o InfixTokens(node)
         \o (IF node.Type = "IDENT" /\ node.Value # ""
             THEN getVariableTokenFromIdent(node, userObjects) ELSE <<>>)

RECURSIVE AllTokens(_, _, _)
AllTokens(nodes, i, userObjects) ==
  IF i > Len(nodes) THEN <<>>
  ELSE extractTokens(nodes[i], userObjects) \o AllTokens(nodes, i + 1, userObjects)

\* The list as the walk emitted it.
emitted(tokens) == tokens

\* tokens.sort by line, then character: a stable sort.
RECURSIVE sortByPosition(_)
sortByPosition(tokens) ==
  IF Len(tokens) = 0 THEN <<>>
  ELSE LET IsBefore(t) ==
             \/ t.line < tokens[1].line
             \/ t.line = tokens[1].line /\ t.character < tokens[1].character
           NotBefore(t) == ~IsBefore(t)
       IN  sortByPosition(SelectSeq(Tail(tokens), IsBefore))
             \o <<tokens[1]>>
             \o sortByPosition(SelectSeq(Tail(tokens), NotBefore))

\* Every token as it is.
keepAll(tokens, deduped) == deduped \o tokens

\* The loop that drops a token at the position of the last one kept, or
\* replaces the last one by it if it is a regexp.
RECURSIVE dedupeTokens(_, _)
dedupeTokens(tokens, deduped) ==
  IF Len(tokens) = 0 THEN deduped
  ELSE LET token == Head(tokens)
           n == Len(deduped)
       IN  IF n > 0 /\ deduped[n].line = token.line
                /\ deduped[n].character = token.character
           THEN dedupeTokens(Tail(tokens),
                  IF token.tokenType = TokenType.regexp
                  THEN [deduped EXCEPT ![n] = token] ELSE deduped)
           ELSE dedupeTokens(Tail(tokens), Append(deduped, token))

\* The names of the backends, ACLs, tables and directors among the symbols.
userObjectsOf(symbols) ==
  {symbols[i].name : i \in {i \in 1..Len(symbols) :
     symbols[i].detail \in {"BACKEND", "ACL", "TABLE", "DIRECTOR", "RATECOUNTER",
                            "PENALTYBOX"}}}

\* semanticTokensProvider.resolve: the tokens pushed to the builder, in the
\* order they are pushed.
semanticTokensProvider_resolve(ast, symbols) ==
  IF ast = NoAST THEN <<>>
  ELSE dedupeTokens(sortByPosition(AllTokens(walkAST(ast), 1, userObjectsOf(symbols))),
                    <<>>)

\* connection.languages.semanticTokens.on(semanticTokensProvider.resolve)
SemanticTokensRequest(u) ==
  /\ lastQuery = NoQuery
  /\ \/ /\ QueryCached(u)
        /\ lastQuery' = Query("semanticTokens", u, Pos(0, 0), "", FALSE,
                              semanticTokensProvider_resolve(DocOf(u).AST,
                                                             getSymbolInformation(u)))
     \/ \E text \in DiskTexts :
          /\ QueryLoads(u, text)
          /\ lastQuery' = Query("semanticTokens", u, Pos(0, 0), "", FALSE, <<>>)
     \/ /\ QueryLoadFails(u)
        /\ lastQuery' = Query("semanticTokens", u, Pos(0, 0), "", FALSE, <<>>)
  /\ UNCHANGED <<history, lastRename>>

(***************************************************************************)
(* TokenSpec: a client that opens a document and asks for its semantic     *)
(* tokens.                                                                 *)
(***************************************************************************)

TokenTexts == QueryTexts \cup RefTexts

TokenNext ==
  \/ \E u \in QueryURIs, text \in TokenTexts :
       DidOpen(u, text) /\ lastQuery' = NoQuery /\ UNCHANGED <<history, lastRename>>
  \/ \E u \in QueryURIs :
       DidClose(u) /\ lastQuery' = NoQuery /\ UNCHANGED <<history, lastRename>>
  \/ \E l \in BagToSet(lints) :
       LintSettings(l) /\ lastQuery' = NoQuery /\ UNCHANGED <<history, lastRename>>
  \/ \E l \in BagToSet(lints) :
       LintCompletes(l) /\ lastQuery' = NoQuery /\ UNCHANGED <<history, lastRename>>
  \/ \E u \in QueryURIs : SemanticTokensRequest(u)

TokenSpec == QueryInit /\ [][TokenNext]_vars

\* C23: the semantic tokens handed to the encoder ascend strictly by line
\* and character: no token precedes or shares the position of the token
\* before it, whatever tokens the walk of the AST emitted.
C23_TokensStrictlyAscending ==
  Answered({"semanticTokens"}) =>
    \A i \in 1..(Len(lastQuery.result) - 1) :
      Before(Pos(lastQuery.result[i].line, lastQuery.result[i].character),
             Pos(lastQuery.result[i + 1].line, lastQuery.result[i + 1].character))

\* The walk emitted a declared variable's name twice and its type before it.
C23_Witness ==
  /\ Answered({"semanticTokens"})
  /\ AstOfUri(lastQuery.uri) # NoAST
  /\ \E i \in 1..Len(lastQuery.result) :
       /\ lastQuery.result[i].tokenType = TokenType.variable
       /\ lastQuery.result[i].tokenModifiers = TokenModifier.declaration
  /\ Len(AllTokens(walkAST(AstOfUri(lastQuery.uri)), 1,
                   userObjectsOf(getSymbolInformation(lastQuery.uri))))
       > Len(lastQuery.result)


(***************************************************************************)
(* DiagSpec: the diagnostics a lint run publishes                          *)
(***************************************************************************)

\* The largest fastly.vcl.maxLintingIssues the client configures.
MaxIssuesSetting == 2
\* The most lint errors falco reports for a document.
MaxLintErrors == 4

\* The loop of validateVCLDocument over lintResult.LintErrors, from the
\* i-th of n errors on: the diagnostics pushed.
RECURSIVE LintErrorLoop(_, _, _, _, _)
LintErrorLoop(problems, i, n, maxLintingIssues, diagnostics) ==
  IF i > n THEN diagnostics
  ELSE IF problems > maxLintingIssues THEN diagnostics
  ELSE LintErrorLoop(problems + 1, i + 1, n, maxLintingIssues,
                     Append(diagnostics, [source |-> "vcl", error |-> i]))

\* The diagnostics of a lint result with or without a parse error and with
\* n lint errors.
diagnosticsOf(parseError, n, maxLintingIssues) ==
  IF parseError
  THEN LintErrorLoop(1, 1, n, maxLintingIssues, <<[source |-> "parse", error |-> 0]>>)
  ELSE LintErrorLoop(0, 1, n, maxLintingIssues, <<>>)

\* connection.sendDiagnostics({ uri, diagnostics })
Published(u, maxLintingIssues, diagnostics) ==
  [kind |-> "diagnostics", uri |-> u, maxLintingIssues |-> maxLintingIssues,
   result |-> diagnostics]

\* validateVCLDocument after `await lintText`, with the diagnostics it
\* sends: falco reports a parse error for a text without an AST and lint
\* errors for a text with one.
LintPublishes(l) ==
  /\ LintCompletes(l)
  /\ \E maxLintingIssues \in 0..MaxIssuesSetting :
       \E n \in IF lintText(l.text) = NoAST THEN {0} ELSE 0..MaxLintErrors :
         lastQuery' = Published(heap[l.doc].uri, maxLintingIssues,
                                diagnosticsOf(lintText(l.text) = NoAST, n,
                                              maxLintingIssues))
  /\ UNCHANGED <<history, lastRename>>

DiagTexts == QueryTexts \cup {Render(ProgBad)}

DiagNext ==
  \/ \E u \in QueryURIs, text \in DiagTexts :
       DidOpen(u, text) /\ lastQuery' = NoQuery /\ UNCHANGED <<history, lastRename>>
  \/ \E u \in QueryURIs :
       DidClose(u) /\ lastQuery' = NoQuery /\ UNCHANGED <<history, lastRename>>
  \/ \E l \in BagToSet(lints) :
       LintSettings(l) /\ lastQuery' = NoQuery /\ UNCHANGED <<history, lastRename>>
  \/ \E l \in BagToSet(lints) : LintPublishes(l)

DiagSpec == QueryInit /\ [][DiagNext]_vars

\* The diagnostics of the lint errors among the diagnostics published last.
LintDiagnostics ==
  {i \in 1..Len(lastQuery.result) : lastQuery.result[i].source = "vcl"}

\* C24: the number of linting diagnostics a lint run publishes for a
\* document never exceeds the configured maxLintingIssues.
C24_AtMostMaxIssues ==
  lastQuery.kind = "diagnostics" =>
    Cardinality(LintDiagnostics) <= lastQuery.maxLintingIssues

\* What the loop does guarantee: at most one diagnostic more than the
\* setting, the parse error included.
DiagAtMostOneMore ==
  lastQuery.kind = "diagnostics" =>
    Len(lastQuery.result) <= lastQuery.maxLintingIssues + 1


\* The 0-based line on which the brace depth, counted from 0-based line l
\* with the braces inside strings ignored, is zero again after an opening
\* brace has been counted; -1 when the text ends before.
RECURSIVE DepthZeroLine(_, _, _, _)
DepthZeroLine(lines, l, open, closed) ==
  IF l >= Len(lines) THEN -1
  ELSE LET line == StripStrings(getLine(lines, Pos(l, 0)))
           o    == open + CountChar(line, "{")
           c    == closed + CountChar(line, "}")
       IN  IF o > 0 /\ o = c THEN l ELSE DepthZeroLine(lines, l + 1, o, c)

\* The 0-based line of the first opening brace from 0-based line l on; -1
\* when there is none.
RECURSIVE OpeningBraceLine(_, _)
OpeningBraceLine(lines, l) ==
  IF l >= Len(lines) THEN -1
  ELSE IF CountChar(StripStrings(getLine(lines, Pos(l, 0))), "{") > 0 THEN l
  ELSE OpeningBraceLine(lines, l + 1)

\* The line getClosingBracePosition returns for a block declaration of the
\* URI's document; -1 for null.
ClosingLine(u, node) ==
  With(getClosingBracePosition(DocOf(u).text, positionFromNode(node)), LAMBDA closing :
    IF closing = NoNode THEN -1 ELSE closing.line)

\* C25: for every block declaration of a linted document, the closing
\* brace position is on the line where the brace depth, counted from the
\* declaration's line with braces in strings ignored, returns to zero after
\* the opening brace of the block has been counted, and is null when the
\* text ends with the depth non-zero; it is never on a line before the
\* opening brace.
C25_ClosingBraceLine ==
  \A u \in URIs :
    Linted(u) =>
      \A nested \in BOOLEAN :
        \A node \in BlockDeclarations(u, nested) :
          /\ ClosingLine(u, node) = DepthZeroLine(DocOf(u).text, node.Line - 1, 0, 0)
          /\ ClosingLine(u, node) # -1 =>
               ClosingLine(u, node) >= OpeningBraceLine(DocOf(u).text, node.Line - 1)


(***************************************************************************)
(* ConfigSpec: a client that changes the configuration while documents     *)
(* are open.                                                               *)
(***************************************************************************)

ConfigNext ==
  \/ \E u \in URIs, text \in SpecTexts : DidOpen(u, text) /\ UNCHANGED <<history, observed>>
  \/ \E u \in URIs : DidClose(u) /\ UNCHANGED <<history, observed>>
  \/ \E v \in BOOLEAN : DidChangeConfiguration(v) /\ UNCHANGED <<history, observed>>
  \/ \E l \in BagToSet(lints) : LintSettings(l) /\ UNCHANGED <<history, observed>>
  \/ \E l \in BagToSet(lints) : LintCompletes(l) /\ UNCHANGED <<history, observed>>

ConfigSpec == Init /\ [][ConfigNext]_vars

\* The calls of validateVCLDocument on a document object that have not got
\* their settings yet.
RunsStarted(ls, d) == CopiesIn([doc |-> d, pc |-> "settings", text |-> <<>>], ls)

\* C26: a configuration change starts a lint run for every document in the
\* document cache.
C26_ConfigChangeRevalidates ==
  [][\A v \in BOOLEAN :
       DidChangeConfiguration(v) =>
         \A u \in URIs :
           documents[u] # 0 =>
             RunsStarted(lints', documents[u]) > RunsStarted(lints, documents[u])]_vars


(***************************************************************************)
(* OverlapSpec: a client that edits a document while a lint run of it is   *)
(* in flight.                                                              *)
(***************************************************************************)

\* Lint runs in flight at one time while the client edits.
MaxOverlap == 2

OverlapTexts == {Render(ProgG("ab", "helper")), Render(ProgBad)}

OverlapNext ==
  \/ \E u \in QueryURIs, text \in OverlapTexts :
       DidOpen(u, text) /\ UNCHANGED <<history, observed>>
  \/ \E u \in QueryURIs, text \in OverlapTexts :
       DidChangeWithin(u, text, MaxOverlap) /\ UNCHANGED <<history, observed>>
  \/ \E t \in timers : TimerFires(t) /\ UNCHANGED <<history, observed>>
  \/ Tick /\ UNCHANGED <<history, observed>>
  \/ \E l \in BagToSet(lints) : LintSettings(l) /\ UNCHANGED <<history, observed>>
  \/ \E l \in BagToSet(lints) : LintCompletes(l) /\ UNCHANGED <<history, observed>>

OverlapSpec == QueryInit /\ [][OverlapNext]_vars

\* C27: when every lint run of an open document has completed, its AST and
\* its symbols are those of the run that was started last, that is of the
\* text the document has: a run that was started earlier and completes
\* later does not overwrite them.
C27_LastStartedRunWins ==
  \A u \in QueryURIs :
    (u \in opened /\ Settled) =>
      /\ DocOf(u).AST = lintText(DocOf(u).text)
      /\ symbolCache[u] = EntryAfterUpdate(DocOf(u).text, DocOf(u).text, NoEntry)


\* The pending timer is gone after the step without having fallen due.
Cancelled(t) == t.remaining > 0 /\ \A t2 \in timers' : t2.id # t.id

\* C28: the pending re-lint of a document is cancelled only by a new edit
\* of that document, which arms a timer for it again: an edit of another
\* document never cancels it, so that every edited document is re-linted
\* once the edits stop.
C28_EditKeepsOtherTimers ==
  [][\A t \in timers : Cancelled(t) => \E t2 \in timers' : t2.doc = t.doc]_vars


\* C29: while the client does not have a URI open, no step writes its
\* symbol-cache entry or creates a settings-cache entry for it: a lint run
\* that was pending or in flight when the document was closed has no effect
\* on the caches of its URI.
C29_ClosedUriUntouched ==
  [][\A u \in URIs :
       u \notin opened =>
         /\ symbolCache'[u] = symbolCache[u]
         /\ documentSettings[u] = "none" => documentSettings'[u] = "none"]_vars


\* The ranges findReferences returns, with the declaration included, for
\* the position of the last request on the document as it is cached.
ReferenceRangesAtQuery ==
  With(referencesProvider_resolve(QueryLines, AstOfUri(lastQuery.uri),
                                  getSymbolInformation(lastQuery.uri),
                                  lastQuery.position, TRUE),
       LAMBDA references : {references[i] : i \in 1..Len(references)})

\* The ranges of the edits of the rename response.
RenameRanges ==
  {lastQuery.result.changes[i].range : i \in 1..Len(lastQuery.result.changes)}

\* C30: at every position at which rename returns edits, the ranges of the
\* edits are the ranges of the references with the declaration included,
\* for HTTP headers, local variables, parameters and global symbols.
C30_RenameEditsAreReferences ==
  (Answered({"rename"}) /\ lastQuery.result # Null) =>
    RenameRanges = ReferenceRangesAtQuery

====
